---- MODULE Spec2Model ----
(***************************************************************************)
(* ClawBot admin: the container lifecycle manager (admin/docker_manager.py),*)
(* the admin API's tenant store and identity resolution (admin/main.py) and *)
(* the watchdog (admin/watchdog.py), as one state machine.                  *)
(*                                                                          *)
(* Identifiers are sequences of one-character strings, so that              *)
(* sanitize_identifier and the container-name derivation are computed, not  *)
(* assumed.  The container runtime (Docker) is the environment: it keeps a  *)
(* set of containers with unique names, and any API call may fail.          *)
(***************************************************************************)
EXTENDS Integers, Sequences, FiniteSets, TLC

VARIABLES
    containers,        \* runtime: the set of container records Docker holds
    nextCid,           \* runtime: the next container id Docker hands out
    data_dirs,         \* host storage: the user identifiers that have a data directory
    user_md,           \* host storage: per tenant, the content of workspace/USER.md
    users,             \* store: the rows of table users
    nextUid,           \* store: the next primary key of table users
    oauth,             \* store: the rows of table oauth_connections, in insertion order
    events,            \* store: the rows of table container_events
    alerts,            \* store: the rows of table alerts
    restart_attempts,  \* Watchdog.restart_attempts: dict github_id -> int
    wd,                \* the watchdog's position: sleeping, or the users left in this pass
    cleanup,             \* cleanup_orphaned_containers: its position and what it has read
    hist,              \* the last operation completed
    procs,             \* in-flight create_container calls (one per concurrent caller)
    resp,              \* the admin API's last response
    obs                \* per tenant, what the watchdog has been seen to do (history)

runtimeVars == <<containers, nextCid, data_dirs, user_md>>
storeVars   == <<users, nextUid, oauth, events, alerts>>
wdVars      == <<restart_attempts, wd, cleanup>>
histVars    == <<hist, procs, resp, obs>>
vars == <<containers, nextCid, data_dirs, user_md, users, nextUid, oauth, events, alerts,
          restart_attempts, wd, cleanup, hist, procs, resp, obs>>

----------------------------------------------------------------------------
(* Bounds of the model *)

\* the most containers the runtime is asked to create in one behaviour
MaxContainers == 2
\* the most rows ever inserted into table users in one behaviour
MaxRows == 2
\* the number of watchdog passes in one behaviour
MaxPasses == 6
\* the number of watchdog passes in one behaviour of SpecAdmin
MaxAdminPasses == 1
\* the most rows of table container_events the admin API adds to
MaxEvents == 2

(* Program constants *)

\* config.py: CONTAINER_PREFIX = "clawbot"
CONTAINER_PREFIX == <<"c", "l", "a", "w", "b", "o", "t">>
\* config.py: MAX_RESTART_ATTEMPTS = 3
MAX_RESTART_ATTEMPTS == 3
\* config.py: BASE_PORT = 9000, MAX_USERS = 6
BASE_PORT == 9000
MAX_USERS == 6

\* config.py PLANS: memory_limit, and cpu_limit in tenths of a CPU
PLANS ==
    [ free    |-> [memory_limit |-> "1536m", cpu_limit10 |-> 5],
      starter |-> [memory_limit |-> "2g",    cpu_limit10 |-> 10],
      pro     |-> [memory_limit |-> "4g",    cpu_limit10 |-> 20] ]
PlanNames == DOMAIN PLANS

\* PLANS.get(plan, PLANS["free"])
PlanConfig(plan) == IF plan \in PlanNames THEN PLANS[plan] ELSE PLANS["free"]

\* a quota of one whole CPU period, whatever the plan
CpuQuotaPeriod(cfg) == 10 * 10000

\* int(plan_config["cpu_limit"] * 100000)
CpuQuota(cfg) == cfg.cpu_limit10 * 10000

----------------------------------------------------------------------------
(* Identifiers *)

\* the characters re.sub(r'[^a-zA-Z0-9_.-]', ...) keeps
AllowedChars ==
    { "a","b","c","d","e","f","g","h","i","j","k","l","m","n","o","p","q","r","s",
      "t","u","v","w","x","y","z",
      "A","B","C","D","E","F","G","H","I","J","K","L","M","N","O","P","Q","R","S",
      "T","U","V","W","X","Y","Z",
      "0","1","2","3","4","5","6","7","8","9","_",".","-" }

\* one character of identifier.replace("@", "-at-") followed by the re.sub
SanitizeChar(c) ==
    IF c = "@" THEN <<"-", "a", "t", "-">>
    ELSE IF c \in AllowedChars THEN <<c>>
    ELSE <<"-">>

RECURSIVE SanitizeBody(_)
SanitizeBody(s) ==
    IF s = <<>> THEN <<>> ELSE SanitizeChar(Head(s)) \o SanitizeBody(Tail(s))

\* a sanitizer without the prefix of lines 303-305
sanitize_identifier_unprefixed(identifier) == SanitizeBody(identifier)

\* main.py sanitize_identifier
sanitize_identifier(identifier) ==
    LET safe == SanitizeBody(identifier)
    IN  IF safe # <<>> /\ Head(safe) \in {".", "-"} THEN <<"u">> \o safe ELSE safe

\* DockerManager._get_container_name
ContainerName(user_identifier) == CONTAINER_PREFIX \o <<"_">> \o user_identifier

\* None
None == "None"

----------------------------------------------------------------------------
(* The container runtime (Docker), as the docker SDK calls of the code see it *)

ContainerStatuses == {"created", "running", "exited"}
\* State.Health.Status; "unknown" is what the code reads when the image
\* declares no health check
HealthStatuses == {"starting", "healthy", "unhealthy", "unknown"}

\* client.containers.get(name): the containers of that name (Docker keeps names unique)
ByName(cs, name) == {c \in cs : c.name = name}

TheContainer(cs, name) == CHOOSE c \in cs : c.name = name

\* the health a container shows right after it is (re)started
FreshHealth(h) == IF h = "unknown" THEN "unknown" ELSE "starting"

\* container.start(): a running container is left as it is
Started(c) ==
    IF c.status = "running" THEN c
    ELSE [c EXCEPT !.status = "running", !.health = FreshHealth(c.health)]

\* container.restart()
Restarted(c) == [c EXCEPT !.status = "running", !.health = FreshHealth(c.health)]

\* container.stop()
Stopped(c) == [c EXCEPT !.status = "exited"]

Replace(cs, old, new) == (cs \ {old}) \cup {new}

\* a structured result of DockerManager; raised = an exception left the method
Result(ok, st, cid, err) ==
    [success |-> ok, status |-> st, container_id |-> cid, error |-> err, raised |-> FALSE]
Raised(err) ==
    [success |-> FALSE, status |-> None, container_id |-> 0, error |-> err, raised |-> TRUE]

\* what a DockerManager call leaves behind
Outcome(cs, ncid, res) == [containers |-> cs, nextCid |-> ncid, result |-> res]

\* the arguments of create_container the model keeps
CreateArgs(plan, port, conns) ==
    [plan |-> plan, port |-> port, connections |-> conns]
\* the arguments of delete_container
DeleteArgs(remove_data) ==
    [plan |-> None, port |-> 0, connections |-> {}, remove_data |-> remove_data]
NoArgs == CreateArgs(None, 0, {})

----------------------------------------------------------------------------
(* DockerManager (admin/docker_manager.py) *)

\* create_container, lines 283-300: the container exists already
CreateExisting(cs, ncid, name, fault) ==
    LET existing == TheContainer(cs, name)
    IN  IF existing.status # "running" /\ fault = "start"
        THEN Outcome(cs, ncid, Raised("APIError"))
        ELSE Outcome(Replace(cs, existing, Started(existing)), ncid,
                     Result(TRUE, "running", existing.id, None))

\* create_container, lines 364-366: GITHUB_TOKEN is set, non-empty, when
\* connections["github"] carries the key "access_token"
GithubTokenEnv(connections) ==
    \E c \in connections : c.provider = "github" /\ c.token_key = "access_token"

\* create_container, lines 325-338: the skills for the connections handed in
EnabledSkills(connections) ==
    LET providers == {c.provider : c \in connections}
    IN  IF connections # {}
        THEN (IF "github" \in providers THEN <<"coding", "github-ghost">> ELSE <<>>)
             \o (IF "google" \in providers THEN <<"google-analytics">> ELSE <<>>)
        ELSE <<"coding">>

\* create_container, line 346: OPENCLAW_SKILLS_ENABLED, the names that
\* ",".join(skills) lists, or "*" for an empty list
SkillsEnabledEnv(skills) == IF skills # <<>> THEN skills ELSE <<"*">>

\* create_container, lines 302-406: client.containers.run and its outcomes.
\* Docker refuses a name already taken (409 Conflict); when the start half of
\* run fails (a host port already allocated, say), the created container
\* stays behind.
CreateRun(cs, ncid, user_identifier, args, health0, fault) ==
    LET name == ContainerName(user_identifier)
        plan_config == PlanConfig(args.plan)
        made(st) == [id |-> ncid, name |-> name, status |-> st,
                     health |-> health0,
                     user |-> user_identifier, plan |-> args.plan,
                     port |-> args.port,
                     mem_limit |-> plan_config.memory_limit,
                     cpu_quota |-> CpuQuota(plan_config),
                     github_token |-> GithubTokenEnv(args.connections),
                     skills_enabled |-> SkillsEnabledEnv(EnabledSkills(args.connections)),
                     connections |-> args.connections]
    IN  IF ByName(cs, name) # {}
        THEN Outcome(cs, ncid, Result(FALSE, None, 0, "Conflict"))
        ELSE IF fault = "run_create"
        THEN Outcome(cs, ncid, Result(FALSE, None, 0, "APIError"))
        ELSE IF fault = "run_start"
        THEN Outcome(cs \cup {made("created")}, ncid + 1,
                     Result(FALSE, None, 0, "APIError"))
        ELSE Outcome(cs \cup {made("running")}, ncid + 1,
                     Result(TRUE, "running", ncid, None))

\* create_container with the existence check of lines 283-300 left out
create_container_unchecked(cs, ncid, user_identifier, args, health0, fault) ==
    IF fault = "get" THEN Outcome(cs, ncid, Raised("APIError"))
    ELSE CreateRun(cs, ncid, user_identifier, args, health0, fault)

\* create_container
create_container(cs, ncid, user_identifier, args, health0, fault) ==
    IF fault = "get" THEN Outcome(cs, ncid, Raised("APIError"))
    ELSE IF ByName(cs, ContainerName(user_identifier)) # {}
    THEN CreateExisting(cs, ncid, ContainerName(user_identifier), fault)
    ELSE CreateRun(cs, ncid, user_identifier, args, health0, fault)

\* _ensure_user_dir, lines 31-42
ensure_user_dir(dirs, user_identifier) == dirs \cup {user_identifier}

\* USER.md as a sequence of pieces: "text" is a block of text (the template's,
\* or what the tenant or its bot wrote), "blank" is white space between
\* blocks, "heading" is the line "## Active Connections", "google" and
\* "github" are the two lines _seed_intelligence writes under it
Pieces == {"text", "blank", "heading", "google", "github"}

\* _seed_intelligence, lines 108-125: the file written when there is none
UserMdTemplate == <<"text", "blank">>

\* no tenant has a USER.md
NoFiles == [g \in {} |-> <<>>]

\* str.split("## Active Connections")[0]: what comes before the first heading
RECURSIVE BeforeHeading(_)
BeforeHeading(content) ==
    IF content = <<>> \/ Head(content) = "heading" THEN <<>>
    ELSE <<Head(content)>> \o BeforeHeading(Tail(content))

\* str.strip(): white space is taken off both ends
RECURSIVE Strip(_)
Strip(content) ==
    IF content = <<>> THEN <<>>
    ELSE IF Head(content) = "blank" THEN Strip(Tail(content))
    ELSE IF content[Len(content)] = "blank"
    THEN Strip(SubSeq(content, 1, Len(content) - 1))
    ELSE content

\* _seed_intelligence, lines 141-145: new_lines
ConnectionLines(connections) ==
    LET providers == {c.provider : c \in connections}
    IN  (IF "google" \in providers THEN <<"google">> ELSE <<>>)
        \o (IF "github" \in providers THEN <<"github">> ELSE <<>>)

\* _seed_intelligence, lines 105-153: USER.md after the call, given the
\* files there are before it
seed_user_md(md, user_identifier, connections) ==
    LET content == IF user_identifier \in DOMAIN md THEN md[user_identifier]
                   ELSE UserMdTemplate
        kept == IF \E i \in DOMAIN content : content[i] = "heading" THEN Strip(BeforeHeading(content))
                ELSE content
        new_lines == ConnectionLines(connections)
    IN  IF connections = {} THEN content
        ELSE IF new_lines # <<>>
        THEN kept \o <<"blank", "heading">> \o new_lines \o <<"blank">>
        ELSE kept

\* create_container, lines 283-309: _seed_intelligence is reached when the
\* container does not exist yet
create_container_files(cs, md, user_identifier, connections, fault) ==
    IF fault = "get" \/ ByName(cs, ContainerName(user_identifier)) # {}
    THEN md
    ELSE [g \in (DOMAIN md) \cup {user_identifier} |->
             IF g = user_identifier THEN seed_user_md(md, user_identifier, connections)
             ELSE md[g]]

\* the files of the data directories that are left
KeepFiles(md, dirs) == [g \in (DOMAIN md) \cap dirs |-> md[g]]

\* create_container, line 306: the data directory is made once the existence
\* check has found no container, before client.containers.run is called
create_container_dirs(cs, dirs, user_identifier, fault) ==
    IF fault = "get" \/ ByName(cs, ContainerName(user_identifier)) # {}
    THEN dirs
    ELSE ensure_user_dir(dirs, user_identifier)

\* stop_container
stop_container(cs, ncid, user_identifier, fault) ==
    LET name == ContainerName(user_identifier)
    IN  IF fault \in {"get", "stop"}
        THEN Outcome(cs, ncid, Result(FALSE, None, 0, "APIError"))
        ELSE IF ByName(cs, name) = {}
        THEN Outcome(cs, ncid, Result(FALSE, None, 0, "Container not found"))
        ELSE Outcome(Replace(cs, TheContainer(cs, name), Stopped(TheContainer(cs, name))),
                     ncid, Result(TRUE, "stopped", 0, None))

\* start_container
start_container(cs, ncid, user_identifier, fault) ==
    LET name == ContainerName(user_identifier)
    IN  IF fault \in {"get", "start"}
        THEN Outcome(cs, ncid, Result(FALSE, None, 0, "APIError"))
        ELSE IF ByName(cs, name) = {}
        THEN Outcome(cs, ncid, Result(FALSE, None, 0, "Container not found"))
        ELSE Outcome(Replace(cs, TheContainer(cs, name), Started(TheContainer(cs, name))),
                     ncid, Result(TRUE, "running", 0, None))

\* restart_container
restart_container(cs, ncid, user_identifier, fault) ==
    LET name == ContainerName(user_identifier)
    IN  IF fault \in {"get", "restart"}
        THEN Outcome(cs, ncid, Result(FALSE, None, 0, "APIError"))
        ELSE IF ByName(cs, name) = {}
        THEN Outcome(cs, ncid, Result(FALSE, None, 0, "Container not found"))
        ELSE Outcome(Replace(cs, TheContainer(cs, name), Restarted(TheContainer(cs, name))),
                     ncid, Result(TRUE, "running", 0, None))

\* delete_container: stop, then remove; a failed remove leaves the stopped container
delete_container(cs, ncid, user_identifier, fault) ==
    LET name == ContainerName(user_identifier)
    IN  IF fault \in {"get", "stop"}
        THEN Outcome(cs, ncid, Result(FALSE, None, 0, "APIError"))
        ELSE IF ByName(cs, name) = {}
        THEN Outcome(cs, ncid, Result(FALSE, None, 0, "Container not found"))
        ELSE IF fault = "remove"
        THEN Outcome(Replace(cs, TheContainer(cs, name), Stopped(TheContainer(cs, name))),
                     ncid, Result(FALSE, None, 0, "APIError"))
        ELSE Outcome(cs \ {TheContainer(cs, name)}, ncid, Result(TRUE, "deleted", 0, None))

\* delete_container that removes the data directory whenever remove_data is
\* set, whether or not the container was found
delete_container_dirs_eager(cs, dirs, user_identifier, remove_data, fault) ==
    IF remove_data THEN dirs \ {user_identifier} ELSE dirs

\* delete_container that removes the data directory with every container it
\* removes
delete_container_dirs_always(cs, dirs, user_identifier, remove_data, fault) ==
    IF delete_container(cs, 0, user_identifier, fault).result.success
    THEN dirs \ {user_identifier}
    ELSE dirs

\* delete_container, lines 456-458: rm -rf of the data directory, reached only
\* after get, stop and remove went through, and only when remove_data is set
delete_container_dirs(cs, dirs, user_identifier, remove_data, fault) ==
    IF delete_container(cs, 0, user_identifier, fault).result.success /\ remove_data
    THEN dirs \ {user_identifier}
    ELSE dirs

----------------------------------------------------------------------------
(* History: the last completed operation *)

HistEntry(op, user, args, fault, res) ==
    [op |-> op, user |-> user, args |-> args, fault |-> fault, res |-> res]

\* hist holds the last completed operation and, of the one before it, whether
\* it was the same call (operation, tenant, arguments), whether the runtime
\* failed in it, and whether it returned success
Push(h, e) ==
    [last |-> e,
     prev |-> [same |-> /\ h.last.op = e.op
                        /\ h.last.user = e.user
                        /\ h.last.args = e.args,
               fault |-> h.last.fault,
               success |-> h.last.res.success]]

NoResult == Result(FALSE, None, 0, None)

\* the runtime failure that struck a call, "none" when the call met none
FaultHit(fault, res) == IF res.error = "APIError" THEN fault ELSE "none"

----------------------------------------------------------------------------
(* Dicts, and what is recorded of the watchdog's doings per tenant *)

RECURSIVE SortById(_)
\* the rows of a result set (or the containers of a listing), in id order
SortById(rows) ==
    IF rows = {} THEN <<>>
    ELSE LET first == CHOOSE r \in rows : \A q \in rows : r.id <= q.id
         IN  <<first>> \o SortById(rows \ {first})

\* d[k] = v
Put(d, k, v) == [x \in (DOMAIN d) \cup {k} |-> IF x = k THEN v ELSE d[x]]
\* del d[k]
Drop(d, k) == [x \in (DOMAIN d) \ {k} |-> d[x]]
\* d.get(k, default)
Get(d, k, default) == IF k \in DOMAIN d THEN d[k] ELSE default

\* per tenant (github_id): streak = the consecutive unhealthy cycles the
\* watchdog has seen since the last healthy one (or since reactivation);
\* faulted = in one of them the container was not in the runtime or a runtime
\* call failed, so that no start or restart was the cause or the effect;
\* esc_at = the streak at which the watchdog escalated, 0 if it has not, and
\* esc_pass = the pass in which it did; recovered = the last healthy cycle
\* came right after MAX_RESTART_ATTEMPTS-1 unhealthy ones; last = what the
\* watchdog did on its last visit
NoObs == [streak |-> 0, faulted |-> FALSE, esc_at |-> 0, esc_pass |-> 0,
          recovered |-> FALSE, last |-> "none"]
ObsOf(g) == Get(obs, g, NoObs)

----------------------------------------------------------------------------
(* The persistent store (admin/models.py) and the admin API (admin/main.py) *)

\* a missing or empty identity hint (None or "")
NoId == <<>>

\* a row of table users; is_active defaults to True. last_health_check is
\* the number of the watchdog pass that wrote it (time is counted in passes),
\* 0 while the column is NULL
UserRow(id, github_id, email, plan, port) ==
    [id |-> id, github_id |-> github_id, email |-> email, plan |-> plan,
     container_port |-> port, container_id |-> 0, container_status |-> "stopped",
     is_active |-> TRUE, last_health_check |-> 0]

\* a row of table oauth_connections
OAuthRow(user_id, provider, provider_account_id) ==
    [user_id |-> user_id, provider |-> provider,
     provider_account_id |-> provider_account_id]

\* the rows of a sequence
Rows(seq) == {seq[i] : i \in DOMAIN seq}

\* db row update: the row of that primary key replaced
UpdateUser(us, new) == {IF u.id = new.id THEN new ELSE u : u \in us}

\* a row appended to an append-only table kept as a set: n numbers the rows
\* that are otherwise equal
AddRow(table, row) ==
    table \cup {[row EXCEPT !.n = 1 + Cardinality({r \in table :
                                        [r EXCEPT !.n = 0] = [row EXCEPT !.n = 0]})]}

\* ContainerEvent(user_id, event_type)
EventRow(user_id, event_type) == [user_id |-> user_id, event_type |-> event_type, n |-> 0]

\* Alert(severity, user_id): kind "row" is the row of table alerts, kind
\* "sent" the notification handed to AlertManager.send_alert
AlertRow(kind, severity, gid) == [kind |-> kind, severity |-> severity, user |-> gid, n |-> 0]

\* the admin API's response
\* a provisioning request
Request(github_id, provider, provider_id, email, plan) ==
    [github_id |-> github_id, provider |-> provider, provider_id |-> provider_id,
     email |-> email, plan |-> plan]
NoRequest == Request(NoId, "", NoId, NoId, None)

\* resp: the last response of the admin API: the endpoint, the HTTP status,
\* the user it was about, and, for create_user, the request and whether a
\* users row was inserted for it
Response(op, code, uid) ==
    [op |-> op, code |-> code, user_id |-> uid, req |-> NoRequest, created |-> FALSE]
NoResponse == Response("none", 0, 0)

\* a port search that goes on past BASE_PORT + MAX_USERS - 1
get_next_available_port_unbounded(us) ==
    LET used == {u.container_port : u \in us} \ {0}
        free == {port \in BASE_PORT .. (BASE_PORT + MAX_USERS) : port \notin used}
    IN  CHOOSE port \in free : \A q \in free : port <= q

\* get_next_available_port; 0 stands for the HTTPException 503 it raises
get_next_available_port(us) ==
    LET used == {u.container_port : u \in us} \ {0}
        free == {port \in BASE_PORT .. (BASE_PORT + MAX_USERS - 1) : port \notin used}
    IN  IF free = {} THEN 0 ELSE CHOOSE port \in free : \A q \in free : port <= q

\* connections[c.provider] = {..., token_key: c.access_token} for the rows of
\* a user: the providers connected and the key their token is put under
ConnectionsOf(oa, uid, token_key) ==
    {[provider |-> r.provider, token_key |-> token_key] :
        r \in {x \in Rows(oa) : x.user_id = uid}}

\* create_user, lines 328-342: the existing user, by email and then by github_id
ExistingUser(us, req) ==
    LET by_email == IF req.email # NoId THEN {u \in us : u.email = req.email} ELSE {}
    IN  IF by_email # {} THEN by_email
        ELSE IF req.github_id # NoId THEN {u \in us : u.github_id = req.github_id}
        ELSE {}

\* create_user, lines 352-379: the credential of (user, provider) updated in
\* place, or a new one linked
UpsertConnectionUnchecked(oa, uid, provider, provider_id) ==
    IF provider # "" /\ provider_id # NoId
    THEN Append(oa, OAuthRow(uid, provider, provider_id))
    ELSE oa

\* create_user, lines 352-379: the credential of (user, provider) updated in
\* place, or a new one linked
UpsertConnection(oa, uid, provider, provider_id) ==
    IF provider # "" /\ provider_id # NoId
          /\ ~\E r \in Rows(oa) : r.user_id = uid /\ r.provider = provider
    THEN Append(oa, OAuthRow(uid, provider, provider_id))
    ELSE oa

\* create_user, lines 415-428: the credential of a new user
NewConnection(oa, uid, provider, provider_id) ==
    IF provider # "" /\ provider_id # NoId
    THEN Append(oa, OAuthRow(uid, provider, provider_id))
    ELSE oa

\* create_user, lines 434-467: ensure the container exists and is running,
\* then record it on the row
EnsureContainer(us, oa, user, health0, fault, req, created) ==
    /\ LET out == create_container(containers, nextCid, user.github_id,
                     CreateArgs(user.plan, user.container_port,
                                ConnectionsOf(oa, user.id, "accessToken")),
                     health0, fault)
       IN  /\ out.nextCid <= MaxContainers + 1
           /\ containers' = out.containers
           /\ nextCid' = out.nextCid
           /\ data_dirs' = create_container_dirs(containers, data_dirs, user.github_id, fault)
           /\ user_md' = create_container_files(containers, user_md, user.github_id,
                               ConnectionsOf(oa, user.id, "accessToken"), fault)
           /\ IF out.result.success
              THEN /\ users' = UpdateUser(us, [user EXCEPT
                                    !.container_id = out.result.container_id,
                                    !.container_status = "running"])
                   /\ resp' = [Response("create_user", 200, user.id) EXCEPT
                                   !.req = req, !.created = created]
              ELSE /\ users' = us
                   /\ resp' = [Response("create_user", 500, user.id) EXCEPT
                                   !.req = req, !.created = created]
    /\ oauth' = oa

\* POST /api/users: create_user
CreateUser(req, health0, fault) ==
    LET raw_identifier ==
            IF req.provider_id # NoId THEN req.provider_id
            ELSE IF req.github_id # NoId THEN req.github_id ELSE req.email
        user_identifier == sanitize_identifier(raw_identifier)
        existing == ExistingUser(users, req)
        port == get_next_available_port(users)
        reject(code) == /\ resp' = [Response("create_user", code, 0) EXCEPT !.req = req]
                        /\ UNCHANGED <<runtimeVars, users, nextUid, oauth>>
    IN  /\ IF raw_identifier = NoId THEN reject(400)
           ELSE IF existing # {}
           THEN LET user == CHOOSE u \in existing : TRUE
                IN  /\ IF user.plan \in PlanNames
                       THEN EnsureContainer(users,
                                UpsertConnection(oauth, user.id, req.provider, req.provider_id),
                                user, health0, fault, req, FALSE)
                       ELSE /\ oauth' = UpsertConnection(oauth, user.id, req.provider,
                                                         req.provider_id)
                            /\ resp' = [Response("create_user", 500, user.id) EXCEPT
                                            !.req = req]
                            /\ UNCHANGED <<runtimeVars, users>>
                    /\ UNCHANGED nextUid
           ELSE IF req.plan \notin PlanNames THEN reject(400)
           ELSE IF port = 0 THEN reject(503)
           ELSE IF \E u \in users : u.github_id = user_identifier THEN reject(500)
           ELSE LET user == UserRow(nextUid, user_identifier, req.email, req.plan, port)
                IN  /\ nextUid <= MaxRows
                    /\ nextUid' = nextUid + 1
                    /\ EnsureContainer(users \cup {user},
                            NewConnection(oauth, user.id, req.provider, req.provider_id),
                            user, health0, fault, req, TRUE)
        /\ UNCHANGED <<events, alerts, wdVars, hist, procs, obs>>

\* get_user_by_identifier: by github_id, else through the first credential
\* whose provider_account_id matches; the set holding the user, or empty
get_user_by_identifier(us, oa, identifier) ==
    LET direct == {u \in us : u.github_id = identifier}
        hits == {i \in DOMAIN oa : oa[i].provider_account_id = identifier}
    IN  IF direct # {} THEN direct
        ELSE IF hits = {} THEN {}
        ELSE LET first == oa[CHOOSE i \in hits : \A j \in hits : i <= j]
             IN  {u \in us : u.id = first.user_id}

\* a PATCH body: plan None = not given; is_active "unset", "true" or "false";
\* provider "" = not given; access_token and github_token given or not
Update(plan, is_active, provider, access_token, github_token) ==
    [plan |-> plan, is_active |-> is_active, provider |-> provider,
     access_token |-> access_token, github_token |-> github_token]

\* update_user, lines 555-588: the generic provider branch
UpdateProviderBranch(oa, user, upd) ==
    IF upd.provider # ""
          /\ ~(\E r \in Rows(oa) : r.user_id = user.id /\ r.provider = upd.provider)
          /\ upd.access_token
    THEN Append(oa, OAuthRow(user.id, upd.provider, user.github_id))
    ELSE oa

\* update_user, lines 590-616: the legacy github_token branch
UpdateLegacyBranch(oa, user, identifier, upd) ==
    IF upd.github_token
          /\ ~(\E r \in Rows(oa) : r.user_id = user.id /\ r.provider = "github")
    THEN Append(oa, OAuthRow(user.id, "github", identifier))
    ELSE oa

\* update_user, lines 618-622: setattr(user, key, value) for the fields given
SetAttrs(user, upd) ==
    [user EXCEPT !.plan = IF upd.plan # None THEN upd.plan ELSE @,
                 !.is_active = IF upd.is_active # "unset" THEN upd.is_active = "true"
                               ELSE @]

\* the plan given differs from the plan the user had before the update
PlanChangedFromOld(old, user, upd) == upd.plan # None /\ upd.plan # old.plan

\* update_user, line 625: the plan-change test, made after setattr has
\* already stored the new plan on user
PlanChanged(old, user, upd) == upd.plan # None /\ upd.plan # user.plan

\* update_user, lines 626-661: stop and delete the old container, create one
\* with the new plan's limits
Recreate(oa, user, upd, health0, fault) ==
    LET stopped == stop_container(containers, nextCid, user.github_id, "none")
        deleted == delete_container(stopped.containers, nextCid, user.github_id, "none")
    IN  create_container(deleted.containers, nextCid, user.github_id,
            CreateArgs(upd.plan, user.container_port,
                       ConnectionsOf(oa, user.id, "access_token")),
            health0, fault)

\* PATCH /api/users/{github_id}: update_user
UpdateUserAction(identifier, upd, fault) ==
    LET found == get_user_by_identifier(users, oauth, identifier)
    IN  /\ IF found = {}
           THEN /\ resp' = Response("update_user", 404, 0)
                /\ UNCHANGED <<runtimeVars, users, oauth, events, obs>>
           ELSE LET old == CHOOSE u \in found : TRUE
                    oa1 == UpdateProviderBranch(oauth, old, upd)
                    oa2 == UpdateLegacyBranch(oa1, old, identifier, upd)
                    user == SetAttrs(old, upd)
                IN  /\ oauth' = oa2
                    /\ resp' = Response("update_user", 200, old.id)
                    /\ obs' = IF upd.is_active = "true" /\ ~old.is_active
                              THEN Put(obs, old.github_id, NoObs) ELSE obs
                    /\ IF PlanChanged(old, user, upd)
                       THEN LET out == Recreate(oa2, user, upd, "starting", fault)
                            IN  /\ out.nextCid <= MaxContainers + 1
                                /\ containers' = out.containers
                                /\ nextCid' = out.nextCid
                                /\ data_dirs' = IF fault = "get" THEN data_dirs
                                                ELSE ensure_user_dir(data_dirs, user.github_id)
                                /\ user_md' = create_container_files({}, user_md,
                                                   user.github_id,
                                                   ConnectionsOf(oa2, user.id, "access_token"),
                                                   fault)
                                /\ IF out.result.success
                                   THEN /\ users' = UpdateUser(users, [user EXCEPT
                                               !.container_id = out.result.container_id,
                                               !.container_status = "running"])
                                        /\ events' = AddRow(events, EventRow(user.id, "upgrade"))
                                   ELSE /\ users' = UpdateUser(users, user)
                                        /\ UNCHANGED events
                       ELSE /\ users' = UpdateUser(users, user)
                            /\ UNCHANGED <<runtimeVars, events>>
        /\ UNCHANGED <<nextUid, alerts, wdVars, hist, procs>>

\* POST /api/users/{github_id}/container: container_action
ContainerAction(identifier, action, health0, fault) ==
    LET found == get_user_by_identifier(users, oauth, identifier)
    IN  /\ IF found = {}
           THEN /\ resp' = Response("container_action", 404, 0)
                /\ UNCHANGED <<runtimeVars, users, events>>
           ELSE LET user == CHOOSE u \in found : TRUE
                    target_id == user.github_id
                    first == CASE action = "start" ->
                                      start_container(containers, nextCid, target_id, fault)
                               [] action = "stop" ->
                                      stop_container(containers, nextCid, target_id, fault)
                               [] OTHER ->
                                      restart_container(containers, nextCid, target_id, fault)
                    create == /\ action = "start"
                              /\ ~first.result.success
                              /\ first.result.error = "Container not found"
                    out == IF create
                           THEN create_container(containers, nextCid, target_id,
                                    CreateArgs(user.plan, user.container_port,
                                               ConnectionsOf(oauth, user.id, "accessToken")),
                                    health0, fault)
                           ELSE first
                    created == create /\ out.result.success
                    status == CASE action = "start" -> "running"
                                [] action = "stop" -> "stopped"
                                [] OTHER -> "running"
                    ev1 == IF created THEN AddRow(events, EventRow(user.id, "create"))
                           ELSE events
                IN  /\ out.nextCid <= MaxContainers + 1
                    /\ Cardinality(events) < MaxEvents
                    /\ containers' = out.containers
                    /\ nextCid' = out.nextCid
                    /\ data_dirs' = IF create
                                    THEN create_container_dirs(containers, data_dirs,
                                                               target_id, fault)
                                    ELSE data_dirs
                    /\ user_md' = IF create
                                  THEN create_container_files(containers, user_md, target_id,
                                           ConnectionsOf(oauth, user.id, "accessToken"), fault)
                                  ELSE user_md
                    /\ resp' = Response("container_action", 200, user.id)
                    /\ IF out.result.success
                       THEN /\ users' = UpdateUser(users, [user EXCEPT
                                   !.container_status = status,
                                   !.container_id = IF created THEN out.result.container_id
                                                    ELSE @])
                            /\ events' = IF created THEN ev1
                                         ELSE AddRow(ev1, EventRow(user.id, action))
                       ELSE UNCHANGED <<users, events>>
        /\ UNCHANGED <<nextUid, oauth, alerts, wdVars, hist, procs, obs>>

\* DELETE /api/users/{github_id}: delete_user.  The result of delete_container
\* is only reported, the users row is deleted whatever it says, and the
\* oauth_connections rows of the user are selected but not deleted.
DeleteUserAction(identifier, remove_data, fault) ==
    LET found == get_user_by_identifier(users, oauth, identifier)
    IN  /\ IF found = {}
           THEN /\ resp' = Response("delete_user", 404, 0)
                /\ UNCHANGED <<containers, data_dirs, user_md, users>>
           ELSE LET user == CHOOSE u \in found : TRUE
                    out == delete_container(containers, nextCid, user.github_id, fault)
                IN  /\ containers' = out.containers
                    /\ data_dirs' = delete_container_dirs(containers, data_dirs,
                                         user.github_id, remove_data, fault)
                    /\ user_md' = KeepFiles(user_md, data_dirs')
                    /\ users' = users \ {user}
                    /\ resp' = Response("delete_user", 200, user.id)
        /\ UNCHANGED <<nextCid, nextUid, oauth, events, alerts, wdVars, hist, procs, obs>>

\* inspect_container_for_sync, lines 615-621: the host port is read from
\* NetworkSettings.Ports, which holds the binding of 8080/tcp only while the
\* container runs; without it container_port is None (0 here)
InspectPort(c) == IF c.status = "running" THEN c.port ELSE 0

\* sync_orphaned_users that gives every labelled container a row, without the
\* lookup of lines 78-81
RECURSIVE AdoptAll(_, _, _, _)
AdoptAll(cs, us, oa, nuid) ==
    IF cs = <<>> THEN [users |-> us, oauth |-> oa, nextUid |-> nuid]
    ELSE LET c == Head(cs)
             user == [id |-> nuid, github_id |-> c.user, email |-> <<>>,
                      plan |-> c.plan, container_port |-> InspectPort(c),
                      container_id |-> c.id, container_status |-> "running",
                      is_active |-> TRUE, last_health_check |-> 0]
         IN  AdoptAll(Tail(cs), us \cup {user}, oa, nuid + 1)

RECURSIVE Adopt(_, _, _, _)
\* sync_orphaned_users, lines 69-158: one labelled container after the other;
\* the one whose owner has no users row is given one, and a github credential
\* when its environment holds a GITHUB_TOKEN
Adopt(cs, us, oa, nuid) ==
    IF cs = <<>> THEN [users |-> us, oauth |-> oa, nextUid |-> nuid]
    ELSE LET c == Head(cs)
         IN  IF \E u \in us : u.github_id = c.user
             THEN Adopt(Tail(cs), us, oa, nuid)
             ELSE LET user == [UserRow(nuid, c.user, NoId, c.plan, InspectPort(c)) EXCEPT
                                  !.container_id = c.id,
                                  !.container_status = "running"]
                  IN  Adopt(Tail(cs), us \cup {user},
                            IF c.github_token
                            THEN Append(oa, OAuthRow(user.id, "github", user.github_id))
                            ELSE oa,
                            nuid + 1)

\* lifespan: the admin API starts (again), on the database it had or, after a
\* redeploy that lost it, on an empty one, and adopts the orphaned containers
Lifespan(db_lost) ==
    LET us == IF db_lost THEN {} ELSE users
        oa == IF db_lost THEN <<>> ELSE oauth
        nuid == IF db_lost THEN 1 ELSE nextUid
        synced == Adopt(SortById(containers), us, oa, nuid)
    IN  /\ synced.nextUid <= MaxRows + MaxContainers
        /\ users' = synced.users
        /\ oauth' = synced.oauth
        /\ nextUid' = synced.nextUid
        /\ events' = IF db_lost THEN {} ELSE events
        /\ alerts' = IF db_lost THEN {r \in alerts : r.kind = "sent"} ELSE alerts
        /\ resp' = NoResponse
        /\ UNCHANGED <<runtimeVars, wdVars, hist, procs, obs>>

----------------------------------------------------------------------------
(* The watchdog (admin/watchdog.py) *)

\* a health check for which a container that is still starting is not healthy
check_container_health_strict(cs, github_id, fault) ==
    LET found == ByName(cs, ContainerName(github_id))
    IN  IF fault = "check"
        THEN [status |-> "error", running |-> FALSE, healthy |-> FALSE]
        ELSE IF found = {}
        THEN [status |-> "not_found", running |-> FALSE, healthy |-> FALSE]
        ELSE LET c == CHOOSE x \in found : TRUE
             IN  [status |-> c.status,
                  running |-> c.status = "running",
                  healthy |-> c.health = "healthy"]

\* check_container_health: what the watchdog reads of the tenant's container
check_container_health(cs, github_id, fault) ==
    LET found == ByName(cs, ContainerName(github_id))
    IN  IF fault = "check"
        THEN [status |-> "error", running |-> FALSE, healthy |-> FALSE]
        ELSE IF found = {}
        THEN [status |-> "not_found", running |-> FALSE, healthy |-> FALSE]
        ELSE LET c == CHOOSE x \in found : TRUE
             IN  [status |-> c.status,
                  running |-> c.status = "running",
                  healthy |-> c.health \in {"healthy", "starting"}]

\* an escalation test that counts the cycle at hand as an attempt
MaxAttemptsReachedEarly(attempts) == attempts + 1 >= MAX_RESTART_ATTEMPTS

\* an escalation test passed only once the maximum is exceeded
MaxAttemptsReachedLate(attempts) == attempts > MAX_RESTART_ATTEMPTS

\* handle_unhealthy_container, line 102: the escalation test
MaxAttemptsReached(attempts) == attempts >= MAX_RESTART_ATTEMPTS

\* handle_unhealthy_container, lines 178-181: the container is not in the runtime
AttemptsAfterNotFound(ra, github_id, attempts) == ra

\* every user, whether active or not
AllUsers(us) == us

\* check_all_containers, lines 209-212: select(User).where(User.is_active == True)
ActiveUsers(us) == {u \in us : u.is_active}

\* a pass begun on a timer, whether or not the one before it has finished
WdBeginPassEager ==
    /\ wd.passes < MaxPasses
    /\ wd' = [pc |-> "pass", queue |-> SortById(ActiveUsers(users)),
              passes |-> wd.passes + 1,
              loaded |-> {u.id : u \in ActiveUsers(users)}, stamped |-> {}]
    /\ UNCHANGED <<runtimeVars, storeVars, restart_attempts, cleanup, histVars>>

\* run(), line 284: the loop begins a pass: check_all_containers loads the
\* active users
WdBeginPass ==
    /\ wd.pc = "sleep"
    /\ wd.passes < MaxPasses
    /\ wd' = [pc |-> "pass", queue |-> SortById(ActiveUsers(users)),
              passes |-> wd.passes + 1,
              loaded |-> {u.id : u \in ActiveUsers(users)}, stamped |-> {}]
    /\ UNCHANGED <<runtimeVars, storeVars, restart_attempts, cleanup, histVars>>

\* check_all_containers, line 228, as a commit writes it: the rows with the
\* last_health_check the session holds for the users of `ids`
Stamp(us, ids, now) ==
    {IF u.id \in ids THEN [u EXCEPT !.last_health_check = now] ELSE u : u \in us}

\* what `await db.commit()` writes besides the change at hand: the
\* last_health_check of the users checked earlier in the pass
Flushed == Stamp(users, wd.stamped, wd.passes)

\* handle_healthy_container
WdHealthy(user, row) ==
    /\ restart_attempts' = Drop(restart_attempts, user.github_id)
    /\ users' = IF user.container_status # "running"
                THEN UpdateUser(Flushed, [row EXCEPT !.container_status = "running",
                                                     !.last_health_check = wd.passes])
                ELSE users
    /\ obs' = Put(obs, user.github_id,
                  [ObsOf(user.github_id) EXCEPT
                      !.streak = 0, !.faulted = FALSE,
                      !.recovered = (ObsOf(user.github_id).streak = MAX_RESTART_ATTEMPTS - 1),
                      !.last = "healthy"])
    /\ UNCHANGED <<runtimeVars, events, alerts>>

\* an escalation that notifies as the restart branch does, storing no Alert row
WdEscalateNotifyOnly(user, row, attempts, streak, odd) ==
    /\ users' = UpdateUser(Flushed, [row EXCEPT !.container_status = "error",
                                                !.is_active = FALSE])
    /\ events' = AddRow(events, EventRow(user.id, "max_restarts"))
    /\ alerts' = AddRow(alerts, AlertRow("sent", "critical", user.github_id))
    /\ restart_attempts' = Put(restart_attempts, user.github_id, 0)
    /\ obs' = Put(obs, user.github_id,
                  [ObsOf(user.github_id) EXCEPT !.streak = streak, !.esc_at = streak,
                                                !.faulted = @ \/ odd,
                                                !.esc_pass = wd.passes,
                                                !.last = "escalate"])
    /\ UNCHANGED runtimeVars

\* handle_unhealthy_container, lines 102-138: escalation
WdEscalate(user, row, attempts, streak, odd) ==
    /\ users' = UpdateUser(Flushed, [row EXCEPT !.container_status = "error",
                                                !.is_active = FALSE])
    /\ events' = AddRow(events, EventRow(user.id, "max_restarts"))
    /\ alerts' = AddRow(AddRow(alerts, AlertRow("row", "critical", user.github_id)),
                        AlertRow("sent", "critical", user.github_id))
    /\ restart_attempts' = Put(restart_attempts, user.github_id, 0)
    /\ obs' = Put(obs, user.github_id,
                  [ObsOf(user.github_id) EXCEPT !.streak = streak, !.esc_at = streak,
                                                !.faulted = @ \/ odd,
                                                !.esc_pass = wd.passes,
                                                !.last = "escalate"])
    /\ UNCHANGED runtimeVars

\* handle_unhealthy_container, lines 140-185: the restart attempt
WdRestart(user, row, health_info, attempts, streak, fault, odd) ==
    LET found == ByName(containers, ContainerName(user.github_id))
        seen(what) == Put(obs, user.github_id,
                          [ObsOf(user.github_id) EXCEPT
                              !.streak = streak, !.last = what,
                              !.faulted = @ \/ odd])
    IN  IF fault = "get" \/ (found # {} /\ fault = "restart")
        THEN \* except Exception: the attempt counts, nothing else changes
             /\ restart_attempts' = Put(restart_attempts, user.github_id, attempts + 1)
             /\ obs' = seen("failed")
             /\ UNCHANGED <<runtimeVars, users, events, alerts>>
        ELSE IF found = {}
        THEN \* except docker.errors.NotFound
             /\ users' = UpdateUser(Flushed, [row EXCEPT !.container_status = "not_found"])
             /\ restart_attempts' = AttemptsAfterNotFound(restart_attempts,
                                                          user.github_id, attempts)
             /\ obs' = seen("not_found")
             /\ UNCHANGED <<runtimeVars, events, alerts>>
        ELSE LET c == CHOOSE x \in found : TRUE
             IN  /\ containers' = Replace(containers, c,
                        IF health_info.status = "exited" THEN Started(c) ELSE Restarted(c))
                 /\ UNCHANGED <<data_dirs, user_md>>
                 /\ restart_attempts' = Put(restart_attempts, user.github_id, attempts + 1)
                 /\ users' = UpdateUser(Flushed, [row EXCEPT !.container_status = "restarting"])
                 /\ events' = AddRow(events, EventRow(user.id, "auto_restart"))
                 /\ alerts' = AddRow(alerts, AlertRow("sent", "warning", user.github_id))
                 /\ obs' = seen(IF health_info.status = "exited" THEN "start" ELSE "restart")
                 /\ UNCHANGED nextCid

\* check_all_containers, lines 216-228: the next user of the pass, with the
\* runtime call that fails during it (if any)
WdCheckUserWith(fault) ==
    /\ wd.pc = "pass"
    /\ wd.queue # <<>>
    /\ LET user == Head(wd.queue)
           rows == {u \in users : u.id = user.id}
           row == CHOOSE u \in rows : TRUE
           health_info == check_container_health(containers, user.github_id, fault)
           attempts == Get(restart_attempts, user.github_id, 0)
           streak == ObsOf(user.github_id).streak + 1
           odd == fault # "none" \/ health_info.status = "not_found"
           found == ByName(containers, ContainerName(user.github_id))
           \* the handler reaches one of its `await db.commit()`
           commits == IF health_info.running /\ health_info.healthy
                      THEN user.container_status # "running"
                      ELSE \/ MaxAttemptsReached(attempts)
                           \/ ~(fault = "get" \/ (found # {} /\ fault = "restart"))
       IN  /\ rows # {}
           \* line 228: user.last_health_check = datetime.utcnow(), pending in
           \* the session until the next commit
           /\ wd' = [wd EXCEPT !.queue = Tail(wd.queue),
                               !.stamped = (IF commits THEN {} ELSE @) \cup {user.id}]
           /\ IF health_info.running /\ health_info.healthy
              THEN WdHealthy(user, row)
              ELSE IF MaxAttemptsReached(attempts)
              THEN WdEscalate(user, row, attempts, streak, odd)
              ELSE WdRestart(user, row, health_info, attempts, streak, fault, odd)
    /\ UNCHANGED <<nextUid, oauth, cleanup, hist, procs, resp>>

\* check_all_containers, lines 216-228: the next user of the pass
WdCheckUser ==
    \E fault \in {"none", "check", "get", "restart"} : WdCheckUserWith(fault)

\* a pass that ends without the commit of line 230
WdEndPassNoCommit ==
    /\ wd.pc = "pass"
    /\ wd.queue = <<>>
    /\ wd' = [wd EXCEPT !.pc = "sleep", !.loaded = {}, !.stamped = {}]
    /\ UNCHANGED <<runtimeVars, storeVars, restart_attempts, cleanup, histVars>>

\* check_all_containers, lines 230-236: the loop is over, the session is
\* committed and closed; run() sleeps
WdEndPass ==
    /\ wd.pc = "pass"
    /\ wd.queue = <<>>
    /\ users' = Flushed
    /\ wd' = [wd EXCEPT !.pc = "sleep", !.loaded = {}, !.stamped = {}]
    /\ UNCHANGED <<runtimeVars, nextUid, oauth, events, alerts, restart_attempts,
                   cleanup, histVars>>

----------------------------------------------------------------------------
(* The initial state: an empty runtime, an empty store, a sleeping watchdog *)

\* cleanup_orphaned_containers is not running
IdleCleanup == [pc |-> "idle", queue |-> <<>>, valid_users |-> {}]

\* the concurrent callers of create_container (two requests in flight)
Procs == {1, 2}
IdleProc == [pc |-> "idle", user |-> <<>>, args |-> NoArgs, res |-> NoResult]

Init ==
    /\ containers = {}
    /\ nextCid = 1
    /\ data_dirs = {}
    /\ user_md = NoFiles
    /\ users = {}
    /\ nextUid = 1
    /\ oauth = <<>>
    /\ events = {}
    /\ alerts = {}
    /\ restart_attempts = [g \in {} |-> 0]
    /\ wd = [pc |-> "sleep", queue |-> <<>>, passes |-> 0, loaded |-> {}, stamped |-> {}]
    /\ cleanup = IdleCleanup
    /\ hist = [last |-> HistEntry("init", <<>>, NoArgs, "none", NoResult),
               prev |-> [same |-> FALSE, fault |-> "none", success |-> FALSE]]
    /\ procs = [p \in Procs |-> IdleProc]
    /\ resp = NoResponse
    /\ obs = [g \in {} |-> NoObs]

\* cleanup_orphaned_containers, lines 244-247: list the labelled containers
CleanupList ==
    /\ cleanup.pc = "idle"
    /\ cleanup' = [pc |-> "listed", queue |-> SortById(containers), valid_users |-> {}]
    /\ UNCHANGED <<runtimeVars, storeVars, restart_attempts, wd, histVars>>

\* cleanup_orphaned_containers, lines 249-251: read the github_id of every user
CleanupSelectUsers ==
    /\ cleanup.pc = "listed"
    /\ cleanup' = [cleanup EXCEPT !.pc = "loop",
                                  !.valid_users = {u.github_id : u \in users}]
    /\ UNCHANGED <<runtimeVars, storeVars, restart_attempts, wd, histVars>>

\* cleanup_orphaned_containers, lines 253-265: the next listed container; the
\* one whose label was not among the github_ids read is stopped and removed.
\* The container object addresses the container by its id; what stop or remove
\* raises is logged and the loop goes on.
CleanupStep ==
    \E fault \in {"none", "stop", "remove"} :
        /\ cleanup.pc = "loop"
        /\ cleanup.queue # <<>>
        /\ LET container == Head(cleanup.queue)
               github_id == container.user
               live == {c \in containers : c.id = container.id}
           IN  IF github_id \in cleanup.valid_users \/ live = {} \/ fault = "stop"
               THEN UNCHANGED containers
               ELSE IF fault = "remove"
               THEN containers' = (containers \ live) \cup {Stopped(c) : c \in live}
               ELSE containers' = containers \ live
        /\ cleanup' = [cleanup EXCEPT !.queue = Tail(cleanup.queue)]
        /\ UNCHANGED <<nextCid, data_dirs, user_md, storeVars, restart_attempts, wd, histVars>>

\* cleanup_orphaned_containers, lines 267-269: every listed container was seen
CleanupEnd ==
    /\ cleanup.pc = "loop"
    /\ cleanup.queue = <<>>
    /\ cleanup' = IdleCleanup
    /\ UNCHANGED <<runtimeVars, storeVars, restart_attempts, wd, histVars>>

----------------------------------------------------------------------------
(* The environment: what the runtime's containers do on their own *)

\* a running container's process exits
EnvExit ==
    \E c \in containers :
        /\ c.status = "running"
        /\ containers' = Replace(containers, c, Stopped(c))
        /\ hist' = Push(hist, HistEntry("env", c.user, NoArgs, "none", NoResult))
        /\ UNCHANGED <<nextCid, data_dirs, user_md, storeVars, wdVars, procs, resp, obs>>

\* a running container's declared health check reports
EnvHealth ==
    \E c \in containers, h \in {"healthy", "unhealthy"} :
        /\ c.status = "running"
        /\ c.health \notin {"unknown", h}
        /\ containers' = Replace(containers, c, [c EXCEPT !.health = h])
        /\ hist' = Push(hist, HistEntry("env", c.user, NoArgs, "none", NoResult))
        /\ UNCHANGED <<nextCid, data_dirs, user_md, storeVars, wdVars, procs, resp, obs>>

----------------------------------------------------------------------------
(* SpecLifecycle: DockerManager called directly, one call at a time *)

LcIds == {<<"a">>, <<"b">>}
LcArgs == {CreateArgs("free", BASE_PORT, {}), CreateArgs("pro", BASE_PORT + 1, {})}

\* apply a DockerManager outcome and record the call
LcApply(op, u, args, fault, out, dirs) ==
    /\ out.nextCid <= MaxContainers + 1
    /\ containers' = out.containers
    /\ nextCid' = out.nextCid
    /\ data_dirs' = dirs
    /\ user_md' = IF op = "create"
                  THEN create_container_files(containers, user_md, u, args.connections, fault)
                  ELSE KeepFiles(user_md, dirs)
    /\ hist' = Push(hist, HistEntry(op, u, args, FaultHit(fault, out.result), out.result))
    /\ UNCHANGED <<storeVars, wdVars, procs, resp, obs>>

LcCreate ==
    \E u \in LcIds, args \in LcArgs, h0 \in {"starting"},
       fault \in {"none", "get", "start", "run_create", "run_start"} :
        LcApply("create", u, args, fault,
                create_container(containers, nextCid, u, args, h0, fault),
                create_container_dirs(containers, data_dirs, u, fault))

LcStart ==
    \E u \in LcIds, fault \in {"none", "start"} :
        LcApply("start", u, NoArgs, fault, start_container(containers, nextCid, u, fault),
                data_dirs)

LcStop ==
    \E u \in LcIds, fault \in {"none", "stop"} :
        LcApply("stop", u, NoArgs, fault, stop_container(containers, nextCid, u, fault),
                data_dirs)

LcRestart ==
    \E u \in LcIds, fault \in {"none", "restart"} :
        LcApply("restart", u, NoArgs, fault,
                restart_container(containers, nextCid, u, fault), data_dirs)

LcDelete ==
    \E u \in LcIds, remove_data \in BOOLEAN, fault \in {"none", "stop", "remove"} :
        LcApply("delete", u, DeleteArgs(remove_data), fault,
                delete_container(containers, nextCid, u, fault),
                delete_container_dirs(containers, data_dirs, u, remove_data, fault))

NextLifecycle ==
    \/ LcCreate
    \/ LcStart
    \/ LcStop
    \/ LcRestart
    \/ LcDelete
    \/ EnvExit

SpecLifecycle == Init /\ [][NextLifecycle]_vars

----------------------------------------------------------------------------
(* C1: create_container twice in sequence *)

\* the last two operations were the same create_container call, and the
\* runtime failed in neither
CreatedTwice ==
    /\ hist.last.op = "create"
    /\ hist.prev.same
    /\ hist.prev.fault = "none"
    /\ hist.last.fault = "none"

\* C1: after create_container has been called twice in sequence with the same
\* arguments for the same tenant (the runtime failing in neither call), both
\* calls have returned success and exactly one container bears the tenant's
\* deterministic name, and it is running.
C1_CreateTwiceOneRunning ==
    CreatedTwice =>
        /\ hist.prev.success
        /\ hist.last.res.success
        /\ ~hist.last.res.raised
        /\ Cardinality(ByName(containers, ContainerName(hist.last.user))) = 1
        /\ \A c \in ByName(containers, ContainerName(hist.last.user)) :
               c.status = "running" /\ c.id = hist.last.res.container_id

\* the second of two identical create_container calls has returned
C1_Witness ==
    /\ CreatedTwice
    /\ hist.last.res.success
    /\ Cardinality(containers) = 2

----------------------------------------------------------------------------
(* SpecWatchdog: a tenant is provisioned, its container exits or turns
   unhealthy, the watchdog polls, the admin reactivates *)

WdIds == {<<"a">>}
WdRequests == {Request(g, "", NoId, NoId, "free") : g \in WdIds}

WdCreateUser ==
    \E req \in WdRequests, h0 \in {"starting"}, fault \in {"none", "run_create"} :
        CreateUser(req, h0, fault)

WdReactivate ==
    \E g \in WdIds : UpdateUserAction(g, Update(None, "true", "", FALSE, FALSE), "none")

NextWatchdog ==
    \/ WdCreateUser
    \/ WdReactivate
    \/ WdBeginPass
    \/ WdCheckUser
    \/ WdEndPass
    \/ EnvExit
    \/ EnvHealth

SpecWatchdog == Init /\ [][NextWatchdog]_vars

\* the watchdog has deactivated the tenant and nobody has reactivated it since
WatchdogOff(g) == ObsOf(g).esc_at # 0

\* C2: a tenant unhealthy in every poll cycle, its container present in the
\* runtime, is deactivated by the watchdog after exactly MAX_RESTART_ATTEMPTS
\* consecutive unhealthy cycles: not later (a streak of that length leaves the
\* tenant inactive) and not earlier, and one critical Alert row is written for
\* the escalation
C2_EscalatesAtMaxAttempts ==
    \A u \in users :
        LET o == ObsOf(u.github_id)
        IN  /\ (o.streak >= MAX_RESTART_ATTEMPTS /\ ~o.faulted) => ~u.is_active
            /\ (o.esc_at # 0 /\ ~o.faulted) => o.esc_at = MAX_RESTART_ATTEMPTS
            /\ o.last = "escalate" =>
                  \E a \in alerts : a.kind = "row" /\ a.severity = "critical"
                                       /\ a.user = u.github_id

\* C3: once the watchdog has deactivated a tenant, no step of the watchdog
\* starts or restarts its container, raises an alert or an event for it, or
\* changes its row (is_active, container_status), until someone else sets
\* is_active
C3_DeactivatedLeftAlone ==
    [][wd' # wd =>
          \A u \in users : WatchdogOff(u.github_id) =>
              /\ \E v \in users' : [v EXCEPT !.last_health_check = 0]
                                        = [u EXCEPT !.last_health_check = 0]
              /\ ByName(containers', ContainerName(u.github_id))
                    = ByName(containers, ContainerName(u.github_id))
              /\ {a \in alerts' : a.user = u.github_id}
                    = {a \in alerts : a.user = u.github_id}
              /\ {e \in events' : e.user_id = u.id} = {e \in events : e.user_id = u.id}
              /\ Get(restart_attempts', u.github_id, 0)
                    = Get(restart_attempts, u.github_id, 0)]_vars

\* a tenant the watchdog deactivated in an earlier pass, still inactive with
\* status error and its container down after two later passes
C3_Witness ==
    \E u \in users :
        /\ WatchdogOff(u.github_id)
        /\ ~u.is_active /\ u.container_status = "error"
        /\ wd.passes > ObsOf(u.github_id).esc_pass + 1
        /\ wd.pc = "sleep"
        /\ \E c \in ByName(containers, ContainerName(u.github_id)) : c.status = "exited"

\* C4: after MAX_RESTART_ATTEMPTS - 1 unhealthy cycles a healthy cycle clears
\* the restart-attempt counter, and MAX_RESTART_ATTEMPTS further consecutive
\* unhealthy cycles then deactivate the tenant
C4_RecoveryResetsCounter ==
    \A u \in users :
        LET o == ObsOf(u.github_id)
        IN  /\ o.last = "healthy" => Get(restart_attempts, u.github_id, 0) = 0
            /\ (o.recovered /\ o.streak >= MAX_RESTART_ATTEMPTS /\ ~o.faulted)
                  => ~u.is_active

\* C5: whatever makes the cycles unhealthy (the container missing from the
\* runtime included), every unhealthy cycle counts, so a tenant cannot stay
\* active through more than MAX_RESTART_ATTEMPTS consecutive unhealthy cycles
C5_EveryUnhealthyCycleCounts ==
    \A u \in users :
        ObsOf(u.github_id).streak > MAX_RESTART_ATTEMPTS => ~u.is_active

----------------------------------------------------------------------------
(* SpecAdmin: one tenant under the admin API and the watchdog *)

AdIds == {<<"a">>}

AdCreateUser ==
    \E g \in AdIds, fault \in {"none", "start", "run_create", "run_start"} :
        CreateUser(Request(g, "", NoId, NoId, "free"), "starting", fault)

AdUpdateUser ==
    \E g \in AdIds, fault \in {"none", "run_create"},
       upd \in {Update("pro", "unset", "", FALSE, FALSE),
                Update("free", "unset", "", FALSE, FALSE),
                Update(None, "true", "", FALSE, FALSE)} :
        UpdateUserAction(g, upd, fault)

AdContainerAction ==
    \E g \in AdIds, action \in {"start", "stop", "restart"},
       fault \in {"none", "get", "run_create"} :
        ContainerAction(g, action, "starting", fault)

AdBeginPass == wd.passes < MaxAdminPasses /\ WdBeginPass

NextAdmin ==
    \/ AdCreateUser
    \/ AdUpdateUser
    \/ AdContainerAction
    \/ AdBeginPass
    \/ WdCheckUser
    \/ WdEndPass
    \/ EnvExit

SpecAdmin == Init /\ [][NextAdmin]_vars

\* the tenant has been provisioned: its row holds the id of the container
\* that a create_container call returned
Provisioned(u) == u.container_id # 0

\* C7: once a tenant is provisioned, whatever create_user, update_user (plan
\* changes included), container start/stop/restart and the watchdog do, the
\* runtime holds exactly one container of that tenant, named CONTAINER_PREFIX,
\* "_" and the tenant's canonical identifier
C7_OneContainerPerTenant ==
    \A u \in users :
        Provisioned(u) =>
            /\ Cardinality({c \in containers : c.user = u.github_id}) = 1
            /\ \A c \in containers :
                  c.user = u.github_id =>
                      c.name = CONTAINER_PREFIX \o <<"_">> \o u.github_id

\* a provisioned tenant whose plan was changed after its container was made,
\* the watchdog having restarted the container and the admin having acted on
\* it last
C7_Witness ==
    \E u \in users :
        /\ Provisioned(u)
        /\ u.plan = "pro"
        /\ \E c \in containers : c.user = u.github_id /\ c.plan = "free"
        /\ ObsOf(u.github_id).last \in {"start", "restart"}
        /\ resp.op = "container_action"
        /\ u.container_status = "stopped"

----------------------------------------------------------------------------
(* SpecStore: identities and credentials in the store, requests one at a time *)

StMail == <<"m", "@", "x">>
StRequests ==
    {Request(NoId, "", NoId, NoId, "free"),
     Request(<<"x">>, "", NoId, NoId, "free"),
     Request(NoId, "", NoId, StMail, "free"),
     Request(NoId, "github", <<"x">>, NoId, "free"),
     Request(NoId, "github", <<"x">>, StMail, "free"),
     Request(NoId, "google", <<"y">>, StMail, "free")}
StIdentifiers == {<<"x">>, <<"y">>, sanitize_identifier(StMail)}
StUpdates == {Update(None, "unset", "github", TRUE, FALSE),
              Update(None, "unset", "", FALSE, TRUE)}

StCreateUser == \E req \in StRequests : CreateUser(req, "starting", "none")

StUpdateUser ==
    \E identifier \in StIdentifiers, upd \in StUpdates :
        UpdateUserAction(identifier, upd, "none")

StLifespan == \E db_lost \in BOOLEAN : Lifespan(db_lost)

NextStore ==
    \/ StCreateUser
    \/ StUpdateUser
    \/ StLifespan

SpecStore == Init /\ [][NextStore]_vars

\* C8: for every tenant and every credential linked to it, resolving the
\* tenant's legacy identifier and resolving the credential's
\* provider_account_id give the same users row
C8_IdentityConvergence ==
    \A u \in users : \A r \in Rows(oauth) :
        r.user_id = u.id =>
            /\ get_user_by_identifier(users, oauth, u.github_id) = {u}
            /\ get_user_by_identifier(users, oauth, r.provider_account_id) = {u}

\* the tenants a request's identity hints belong to
HintOwners(us, oa, req) ==
    {u \in us :
        \/ req.github_id # NoId /\ u.github_id = req.github_id
        \/ req.email # NoId /\ u.email = req.email
        \/ /\ req.provider # "" /\ req.provider_id # NoId
           /\ \E r \in Rows(oa) : /\ r.user_id = u.id
                                  /\ r.provider = req.provider
                                  /\ r.provider_account_id = req.provider_id}

\* C9: a create_user request whose hints (github_id, provider with
\* provider_id, email) belonged to a tenant already in the store is answered
\* with success and inserts no users row
C9_CreateUserIdempotent ==
    resp.op = "create_user" =>
        LET before == IF resp.created THEN {u \in users : u.id # resp.user_id}
                      ELSE users
        IN  HintOwners(before, oauth, resp.req) # {} =>
                resp.code = 200 /\ ~resp.created

\* C10: the store never holds two credentials of one tenant for one provider
C10_OneConnectionPerProvider ==
    \A i, j \in DOMAIN oauth :
        (oauth[i].user_id = oauth[j].user_id /\ oauth[i].provider = oauth[j].provider)
            => i = j

\* a tenant holding credentials of two providers, the one of the request just
\* answered among them, the request having found the tenant in the store
C10_Witness ==
    /\ resp.op = "create_user" /\ resp.code = 200 /\ ~resp.created
    /\ resp.req.provider = "github"
    /\ \E i, j \in DOMAIN oauth :
          /\ oauth[i].user_id = resp.user_id /\ oauth[i].provider = "github"
          /\ oauth[j].user_id = resp.user_id /\ oauth[j].provider = "google"
    /\ \E u \in users : u.id # resp.user_id /\ u.container_status = "running"
                           /\ u.email = NoId /\ Provisioned(u)

----------------------------------------------------------------------------
(* SpecRace: two callers inside create_container at once.  The method takes *)
(* no lock, so its docker calls interleave: get (lines 285-300), then run   *)
(* (lines 372-406).  The runtime fails in no call here.                     *)

RaceIds == {<<"a">>, <<"b">>}
RaceArgs == {CreateArgs("free", BASE_PORT, {})}

\* a caller enters create_container
RaceBegin(p) ==
    \E u \in RaceIds, args \in RaceArgs :
        /\ procs[p].pc = "idle"
        /\ procs' = [procs EXCEPT ![p] = [pc |-> "get", user |-> u, args |-> args,
                                          res |-> NoResult]]
        /\ UNCHANGED <<runtimeVars, storeVars, wdVars, hist, resp, obs>>

\* lines 285-300: the existence check, and the return when the container exists
RaceGet(p) ==
    /\ procs[p].pc = "get"
    /\ IF ByName(containers, ContainerName(procs[p].user)) # {}
       THEN LET out == CreateExisting(containers, nextCid,
                                      ContainerName(procs[p].user), "none")
            IN  /\ containers' = out.containers
                /\ procs' = [procs EXCEPT ![p].pc = "done", ![p].res = out.result]
       ELSE /\ procs' = [procs EXCEPT ![p].pc = "run"]
            /\ UNCHANGED containers
    /\ UNCHANGED <<nextCid, data_dirs, user_md, storeVars, wdVars, hist, resp, obs>>

\* lines 372-406: client.containers.run
RaceRun(p) ==
    /\ procs[p].pc = "run"
    /\ LET out == CreateRun(containers, nextCid, procs[p].user, procs[p].args,
                            "starting", "none")
       IN  /\ out.nextCid <= MaxContainers + 1
           /\ containers' = out.containers
           /\ nextCid' = out.nextCid
           /\ data_dirs' = ensure_user_dir(data_dirs, procs[p].user)
           /\ user_md' = create_container_files({}, user_md, procs[p].user,
                               procs[p].args.connections, "none")
           /\ procs' = [procs EXCEPT ![p].pc = "done", ![p].res = out.result]
    /\ UNCHANGED <<storeVars, wdVars, hist, resp, obs>>

\* the caller has its result and leaves
RaceReturn(p) ==
    /\ procs[p].pc = "done"
    /\ procs' = [procs EXCEPT ![p] = IdleProc]
    /\ UNCHANGED <<runtimeVars, storeVars, wdVars, hist, resp, obs>>

\* delete_container, called while no create_container call is in flight
RaceDelete ==
    \E u \in RaceIds :
        /\ \A p \in Procs : procs[p].pc = "idle"
        /\ LET out == delete_container(containers, nextCid, u, "none")
           IN  /\ out.result.success
               /\ containers' = out.containers
        /\ UNCHANGED <<nextCid, data_dirs, user_md, storeVars, wdVars, hist, procs, resp, obs>>

NextRace ==
    \/ \E p \in Procs : RaceBegin(p)
    \/ \E p \in Procs : RaceGet(p)
    \/ \E p \in Procs : RaceRun(p)
    \/ \E p \in Procs : RaceReturn(p)
    \/ RaceDelete
    \/ EnvExit

SpecRace == Init /\ [][NextRace]_vars

\* C6: when create_container calls for the same tenant interleave, every one
\* of them returns success (an AlreadyExists from the runtime never reaches a
\* caller as a failure), and once they have all returned exactly one
\* container bears the tenant's name.
C6_ConcurrentCreateSucceeds ==
    /\ \A p \in Procs : procs[p].pc = "done" => procs[p].res.success
    /\ \A p, q \in Procs :
           (procs[p].pc = "done" /\ procs[q].pc = "done"
                /\ procs[p].user = procs[q].user)
           => Cardinality(ByName(containers, ContainerName(procs[p].user))) = 1

----------------------------------------------------------------------------
(* SpecPlans: create_container called with every plan name, and with a name *)
(* the plan table does not hold *)

PlIds == {<<"a">>}
PlPlans == PlanNames \cup {"gold"}

PlCreate ==
    \E u \in PlIds, plan \in PlPlans, fault \in {"none", "run_create"} :
        LcApply("create", u, CreateArgs(plan, BASE_PORT, {}), fault,
                create_container(containers, nextCid, u,
                                 CreateArgs(plan, BASE_PORT, {}), "starting", fault),
                create_container_dirs(containers, data_dirs, u, fault))

PlStop ==
    \E u \in PlIds :
        LcApply("stop", u, NoArgs, "none",
                stop_container(containers, nextCid, u, "none"), data_dirs)

PlDelete ==
    \E u \in PlIds, remove_data \in BOOLEAN :
        LcApply("delete", u, DeleteArgs(remove_data), "none",
                delete_container(containers, nextCid, u, "none"),
                delete_container_dirs(containers, data_dirs, u, remove_data, "none"))

NextPlans ==
    \/ PlCreate
    \/ PlStop
    \/ PlDelete

SpecPlans == Init /\ [][NextPlans]_vars

\* C15: every container create_container has requested for a plan of the
\* table carries that plan's memory_limit as its memory limit and that plan's
\* cpu_limit times 100000 as its CPU quota (cpu_limit10 is cpu_limit in
\* tenths, so the quota times 10 is cpu_limit10 times 100000).
C15_LimitsFollowPlan ==
    \A c \in containers :
        c.plan \in PlanNames =>
            /\ c.mem_limit = PLANS[c.plan].memory_limit
            /\ c.cpu_quota * 10 = PLANS[c.plan].cpu_limit10 * 100000

\* a create_container call for plan starter has just made the container
C15_Witness ==
    /\ hist.last.op = "create"
    /\ hist.last.args.plan = "starter"
    /\ hist.last.res.success
    /\ \E c \in containers :
           /\ c.id = hist.last.res.container_id
           /\ c.plan = "starter"
           /\ c.mem_limit = "2g"

\* C16: create_container called with a plan name the table does not hold
\* returns a failure, and no container is ever made for such a plan.
C16_UnknownPlanRejected ==
    /\ (hist.last.op = "create" /\ hist.last.args.plan \notin PlanNames)
           => ~hist.last.res.success
    /\ \A c \in containers : c.plan \in PlanNames

----------------------------------------------------------------------------
(* SpecLifecycle: calls for a tenant that has no container, host storage,   *)
(* and how runtime failures come back                                       *)

\* C17: start, stop, restart and delete called for a tenant whose container
\* does not exist (the runtime itself answering) each return the failure
\* "Container not found" and leave the runtime's containers and the host
\* storage as they were; for delete also when remove_data is set.
C17_MissingContainerNotFound ==
    [][(/\ hist'.last.op \in {"start", "stop", "restart", "delete"}
        /\ hist'.last.fault = "none"
        /\ ByName(containers, ContainerName(hist'.last.user)) = {})
       => /\ ~hist'.last.res.success
          /\ ~hist'.last.res.raised
          /\ hist'.last.res.error = "Container not found"
          /\ containers' = containers
          /\ data_dirs' = data_dirs]_vars

\* delete with remove_data set has just met no container, and the tenant's
\* data directory is still there
C17_Witness ==
    /\ hist.last.op = "delete"
    /\ hist.last.args.remove_data
    /\ hist.last.res.error = "Container not found"
    /\ hist.last.user \in data_dirs
    /\ ByName(containers, ContainerName(hist.last.user)) = {}

\* C18: delete_container changes host storage only when remove_data is set
\* and the container was removed, and then the tenant's data directory is
\* gone; with remove_data not set a successful delete removes the container
\* and leaves host storage as it was.
C18_DataRemovedOnlyOnRequest ==
    [][hist'.last.op = "delete"
       => LET u == hist'.last.user
              remove_data == hist'.last.args.remove_data
              ok == hist'.last.res.success
          IN  /\ data_dirs' # data_dirs => (remove_data /\ ok)
              /\ (remove_data /\ ok) => (u \notin data_dirs' /\ data_dirs' \subseteq data_dirs)
              /\ (~remove_data /\ ok)
                     => /\ ByName(containers, ContainerName(u)) # {}
                        /\ ByName(containers', ContainerName(u)) = {}
                        /\ data_dirs' = data_dirs]_vars

\* delete without remove_data has just removed the container, and the data
\* directory create_container made is still there
C18_Witness ==
    /\ hist.last.op = "delete"
    /\ ~hist.last.args.remove_data
    /\ hist.last.res.success
    /\ hist.last.user \in data_dirs
    /\ ByName(containers, ContainerName(hist.last.user)) = {}

\* C20: every call of create, start, stop, restart and delete ends with a
\* returned result, never with an exception, and a call in which a runtime
\* API call failed returns success False with the error.
C20_FailuresAreReturned ==
    hist.last.op \in {"create", "start", "stop", "restart", "delete"}
        => /\ ~hist.last.res.raised
           /\ hist.last.fault # "none"
                  => (~hist.last.res.success /\ hist.last.res.error # None)

----------------------------------------------------------------------------
(* SpecAdmin: a plan change through update_user *)

\* C19: when update_user has answered 200 for a provisioned tenant and the
\* plan it stored differs from the plan stored before, the tenant's old
\* container is gone and the runtime holds a new container of that tenant
\* whose plan label, memory limit and CPU quota are those of the new plan.
C19_PlanChangeRecreates ==
    [][\A old \in users, new \in users' :
           (/\ resp'.op = "update_user"
            /\ resp'.code = 200
            /\ old.id = resp'.user_id
            /\ new.id = old.id
            /\ Provisioned(old)
            /\ new.plan # old.plan)
           => /\ \A c \in containers : c.user = old.github_id => c \notin containers'
              /\ \E c \in ByName(containers', ContainerName(new.github_id)) :
                     /\ c.id \notin {x.id : x \in containers}
                     /\ c.plan = new.plan
                     /\ c.mem_limit = PlanConfig(new.plan).memory_limit
                     /\ c.cpu_quota = CpuQuota(PlanConfig(new.plan))]_vars

----------------------------------------------------------------------------
(* SpecReconcile: tenants created and deleted through the admin API, the    *)
(* adopt pass of the API's startup, and the watchdog's orphan cleanup        *)
(* running beside them *)

\* the requests; the one that names a provider carries that provider's
\* access token, so the credential row and the connections handed to
\* create_container hold a token
RcRequests ==
    {Request(NoId, "github", <<"x">>, NoId, "free"),
     Request(<<"y">>, "", NoId, NoId, "pro")}
RcIdentifiers == {<<"x">>, <<"y">>}

RcCreateUser == \E req \in RcRequests : CreateUser(req, "starting", "none")

RcDeleteUser ==
    \E identifier \in RcIdentifiers, fault \in {"none", "stop", "remove"} :
        DeleteUserAction(identifier, FALSE, fault)

RcLifespan == Lifespan(FALSE)

NextReconcile ==
    \/ RcCreateUser
    \/ RcDeleteUser
    \/ RcLifespan
    \/ CleanupList
    \/ CleanupSelectUsers
    \/ CleanupStep
    \/ CleanupEnd

SpecReconcile == Init /\ [][NextReconcile]_vars

\* the labelled containers whose owner has no users row
Orphans == {c \in containers : ~(\E u \in users : u.github_id = c.user)}

\* what one adopt pass makes of the present store and runtime
AdoptPass == Adopt(SortById(containers), users, oauth, nextUid)

\* C11: for every labelled container whose owner has no users row, one adopt
\* pass inserts exactly one row for that owner, with the plan of the
\* container's label, the host port of its port binding and its container
\* id, and inserts a credential for the new row exactly when the container's
\* environment holds a provider token.
C11_AdoptRebuildsTenant ==
    \A c \in Orphans :
        LET new == {u \in AdoptPass.users \ users : u.github_id = c.user}
        IN  /\ Cardinality(new) = 1
            /\ \A u \in new :
                   /\ u.plan = c.plan
                   /\ u.container_port = c.port
                   /\ u.container_id = c.id
                   /\ (\E i \in DOMAIN AdoptPass.oauth :
                           i > Len(oauth) /\ AdoptPass.oauth[i].user_id = u.id)
                      <=> (c.connections # {})

\* C12: one adopt pass leaves every users row and every credential as it
\* was, inserts no row for an owner that has one, and a second pass right
\* after it, the runtime unchanged, inserts nothing.
C12_AdoptLeavesRowsAlone ==
    LET once == AdoptPass
        twice == Adopt(SortById(containers), once.users, once.oauth, once.nextUid)
    IN  /\ users \subseteq once.users
        /\ SubSeq(once.oauth, 1, Len(oauth)) = oauth
        /\ \A new \in once.users \ users :
               ~(\E u \in users : u.github_id = new.github_id)
        /\ twice = once

\* the API has just started and run its adopt pass: the row of y was there
\* before and is as create_user left it, the row of x is the one the pass made
\* for x's container (it has no credential of its own)
C12_Witness ==
    /\ resp.op = "none"
    /\ \E u, v \in users :
           /\ u.github_id = <<"x">>
           /\ ~(\E r \in Rows(oauth) : r.user_id = u.id)
           /\ \E c \in containers : c.user = u.github_id /\ c.id = u.container_id
           /\ v.github_id = <<"y">>
           /\ v.plan = "pro"
           /\ \E c \in containers : c.user = v.github_id /\ c.id = v.container_id

\* a step of the loop of cleanup_orphaned_containers
CleanupActs == cleanup.pc = "loop" /\ cleanup' # cleanup

\* C13: the orphan cleanup stops or removes a labelled container only when
\* its owner has no users row and adoption is no remedy for it; a container
\* for which an adopt pass would still make a users row is left alone.
C13_PruneOnlyUnrecoverable ==
    [][CleanupActs
       => \A c \in containers :
              c \notin containers'
                  => /\ c \in Orphans
                     /\ ~(\E u \in AdoptPass.users : u.github_id = c.user)]_vars

\* C14: the orphan cleanup never stops or removes a container whose owner
\* label is the github_id of a users row that exists when it acts, also when
\* create_user, delete_user or the adopt pass run between its steps.
C14_PruneSparesTenants ==
    [][CleanupActs
       => \A c \in containers :
              (\E u \in users : u.github_id = c.user) => c \in containers']_vars

----------------------------------------------------------------------------
(* SpecAdmin: what a failed runtime action leaves in the store *)

\* C21: a create_user call that inserted a users row and whose container
\* could not be made (the call answers with an error) leaves no users row,
\* and with it no port allocation, behind.
C21_FailedProvisioningLeavesNoRow ==
    (/\ resp.op = "create_user"
     /\ resp.created
     /\ resp.code # 200)
    => ~(\E u \in users : u.id = resp.user_id)

----------------------------------------------------------------------------
(* SpecPorts: create_user on a store in which some, or all, of the ports of *)
(* [BASE_PORT, BASE_PORT + MAX_USERS) belong to tenants provisioned before  *)

\* the ports create_user hands out
PortRange == BASE_PORT .. (BASE_PORT + MAX_USERS - 1)

\* the tenant provisioned k-th on a fresh store: users row k, port
\* BASE_PORT + k - 1, container k
PtGithubId(k) == <<"t", <<"1", "2", "3", "4", "5", "6">>[k]>>
PtRow(k) ==
    [UserRow(k, PtGithubId(k), NoId, "free", BASE_PORT + k - 1) EXCEPT
        !.container_id = k, !.container_status = "running"]
PtContainer(k) ==
    CreateRun({}, k, PtGithubId(k), CreateArgs("free", BASE_PORT + k - 1, {}),
              "starting", "none").containers

\* the store and runtime after the first MAX_USERS tenants were provisioned
\* and the tenants outside `kept` deleted again
InitPorts ==
    \E kept \in SUBSET (1 .. MAX_USERS) :
        /\ users = {PtRow(k) : k \in kept}
        /\ containers = UNION {PtContainer(k) : k \in kept}
        /\ data_dirs = {PtGithubId(k) : k \in 1 .. MAX_USERS}
        /\ user_md = [g \in {PtGithubId(k) : k \in 1 .. MAX_USERS} |-> UserMdTemplate]
        /\ nextUid = MAX_USERS + 1
        /\ nextCid = MAX_USERS + 1
        /\ oauth = <<>>
        /\ events = {}
        /\ alerts = {}
        /\ restart_attempts = [g \in {} |-> 0]
        /\ wd = [pc |-> "sleep", queue |-> <<>>, passes |-> 0, loaded |-> {}, stamped |-> {}]
        /\ cleanup = IdleCleanup
        /\ hist = [last |-> HistEntry("init", <<>>, NoArgs, "none", NoResult),
                   prev |-> [same |-> FALSE, fault |-> "none", success |-> FALSE]]
        /\ procs = [p \in Procs |-> IdleProc]
        /\ resp = NoResponse
        /\ obs = [g \in {} |-> NoObs]

PtRequests ==
    {Request(<<"z">>, "", NoId, NoId, "free"),
     Request(NoId, "github", <<"y">>, NoId, "pro"),
     Request(PtGithubId(1), "", NoId, NoId, "free")}

PtCreateUser == \E req \in PtRequests : CreateUser(req, "starting", "none")

PtDeleteUser ==
    \E k \in 1 .. MAX_USERS : DeleteUserAction(PtGithubId(k), FALSE, "none")

NextPorts ==
    \/ PtCreateUser
    \/ PtDeleteUser

SpecPorts == InitPorts /\ [][NextPorts]_vars

\* every port of the range is the container_port of a users row
PortsExhausted(us) == \A port \in PortRange : \E u \in us : u.container_port = port

\* the request is one for a tenant the store does not hold yet
NewTenantRequest(us, req) ==
    /\ req.github_id # NoId \/ req.provider_id # NoId \/ req.email # NoId
    /\ req.plan \in PlanNames
    /\ ExistingUser(us, req) = {}

\* C22: when every port of [BASE_PORT, BASE_PORT + MAX_USERS) is assigned,
\* no port is found, and create_user for a new tenant answers 503 and
\* leaves the users rows and the runtime's containers as they were.
C22_PortsExhaustedRejected ==
    /\ [](PortsExhausted(users) => get_next_available_port(users) = 0)
    /\ [][(/\ PortsExhausted(users)
           /\ resp'.op = "create_user"
           /\ NewTenantRequest(users, resp'.req))
          => /\ resp'.code = 503
             /\ users' = users
             /\ nextUid' = nextUid
             /\ containers' = containers]_vars

\* create_user for a new tenant has just been refused on a full store
C22_Witness ==
    /\ resp.op = "create_user"
    /\ resp.code = 503
    /\ NewTenantRequest(users, resp.req)
    /\ Cardinality(users) = MAX_USERS
    /\ PortsExhausted(users)

----------------------------------------------------------------------------
(* SpecPasses: two tenants under the watchdog's loop *)

PsIds == {<<"a">>, <<"b">>}

PsCreateUser ==
    \E g \in PsIds : CreateUser(Request(g, "", NoId, NoId, "free"), "starting", "none")

\* run(), lines 284-296: the loop, for the passes the model follows
PsBeginPass == wd.passes <= MaxAdminPasses /\ WdBeginPass

NextPasses ==
    \/ PsCreateUser
    \/ PsBeginPass
    \/ WdCheckUser
    \/ WdEndPass
    \/ EnvExit

SpecPasses == Init /\ [][NextPasses]_vars

\* C23: a pass begins only while the watchdog sleeps with the pass before it
\* completed; while a pass runs, each step of the watchdog handles the one
\* tenant at the head of what is left of the pass, and nothing it keeps about
\* another tenant changes (but for the time of that tenant's own check, which
\* the next commit writes), until the pass ends and the watchdog sleeps.
C23_PassesDoNotOverlap ==
    [][/\ wd'.passes # wd.passes
            => /\ wd.pc = "sleep"
               /\ wd.queue = <<>>
               /\ wd'.passes = wd.passes + 1
       /\ (wd.pc = "pass" /\ wd' # wd)
            => \/ /\ wd.queue # <<>>
                  /\ wd'.pc = "pass"
                  /\ wd'.queue = Tail(wd.queue)
                  /\ \A u \in users :
                        u.github_id # Head(wd.queue).github_id
                            => /\ \E v \in users' :
                                      [v EXCEPT !.last_health_check = 0]
                                          = [u EXCEPT !.last_health_check = 0]
                               /\ Get(restart_attempts', u.github_id, 0)
                                      = Get(restart_attempts, u.github_id, 0)
               \/ /\ wd.queue = <<>>
                  /\ wd'.pc = "sleep"
                  /\ wd'.queue = <<>>]_vars

\* the second pass is under way: one of two active tenants is still to come
C23_Witness ==
    /\ wd.passes >= 2
    /\ wd.pc = "pass"
    /\ Len(wd.queue) = 1
    /\ Cardinality(ActiveUsers(users)) = 2

----------------------------------------------------------------------------
(* SpecRunLoop: Watchdog.run() as it loops for ever, beside an admin API    *)
(* that creates and deletes one tenant.  The loop is fair: once a pass can  *)
(* begin, go on or end, it does.                                            *)

RlIds == {<<"a">>, <<"b">>}

RlCreateUser ==
    \E g \in RlIds : CreateUser(Request(g, "", NoId, NoId, "free"), "starting", "none")

\* delete_user, for the requests that arrive between two passes
RlDeleteUser ==
    \E g \in RlIds, fault \in {"none", "stop"} :
        wd.pc = "sleep" /\ DeleteUserAction(g, FALSE, fault)

\* run(), lines 284-286: the next cycle of `while True`; all the cycle does is
\* await check_all_containers() (the cycles are not counted here)
RlBeginPass ==
    /\ wd.pc = "sleep"
    /\ wd' = [wd EXCEPT !.pc = "pass", !.queue = SortById(ActiveUsers(users)),
                        !.loaded = {u.id : u \in ActiveUsers(users)}]
    /\ UNCHANGED <<runtimeVars, storeVars, restart_attempts, cleanup, histVars>>

\* check_all_containers, lines 216-228, for the checks that write no event and
\* no alert: the tenant is healthy, or the attempt to restart it fails
RlCheckUser == WdCheckUser /\ UNCHANGED <<events, alerts>>

NextRunLoop ==
    \/ RlCreateUser
    \/ RlDeleteUser
    \/ RlBeginPass
    \/ RlCheckUser
    \/ WdEndPass

SpecRunLoop ==
    /\ Init
    /\ [][NextRunLoop]_vars
    /\ WF_vars(RlBeginPass)
    /\ WF_vars(RlCheckUser)
    /\ WF_vars(WdEndPass)

\* C24: the run loop comes back to orphan pruning again and again, so that
\* whenever a labelled container has no users row, a later state has no such
\* container left.
C24_OrphanEventuallyPruned == (Orphans # {}) ~> (Orphans = {})


----------------------------------------------------------------------------
(* C25: the healthy branch of a poll cycle *)

\* the container of the user whose turn it is in the pass is running and its
\* health is healthy or starting
HeadIsHealthy ==
    /\ wd.pc = "pass"
    /\ wd.queue # <<>>
    /\ \E c \in ByName(containers, ContainerName(Head(wd.queue).github_id)) :
           c.status = "running" /\ c.health \in {"healthy", "starting"}

\* C25: in a poll cycle that reads the tenant's container as running with
\* health healthy or starting, the watchdog starts and restarts nothing, the
\* persisted status is running afterwards (it is set if it differed), and the
\* tenant has no restart-attempt counter left.
C25_HealthyLeftRunning ==
    [][(HeadIsHealthy /\ \E fault \in {"none", "get", "restart"} : WdCheckUserWith(fault))
        => LET user == Head(wd.queue)
           IN  /\ containers' = containers
               /\ \A u \in users' : u.id = user.id => u.container_status = "running"
               /\ \A u \in users : \E v \in users' :
                      [v EXCEPT !.last_health_check = 0]
                          = [u EXCEPT !.last_health_check = 0,
                                      !.container_status =
                                          IF u.id = user.id THEN "running" ELSE @]
               /\ user.github_id \notin DOMAIN restart_attempts'
               /\ events' = events
               /\ alerts' = alerts]_vars

\* a tenant that was restarted before has been found healthy: its status is
\* back at running and its counter is gone
C25_Witness ==
    \E u \in users :
        /\ ObsOf(u.github_id).last = "healthy"
        /\ u.container_status = "running"
        /\ u.github_id \notin DOMAIN restart_attempts
        /\ \E e \in events : e.user_id = u.id /\ e.event_type = "auto_restart"
        /\ wd.pc = "pass"


----------------------------------------------------------------------------
(* C26: the restart branch of a poll cycle *)

\* the container of the user whose turn it is exists and is not (running and
\* healthy-or-starting), and the user's counter is below the maximum
HeadNeedsRestart ==
    /\ wd.pc = "pass"
    /\ wd.queue # <<>>
    /\ \E c \in ByName(containers, ContainerName(Head(wd.queue).github_id)) :
           ~(c.status = "running" /\ c.health \in {"healthy", "starting"})
    /\ Get(restart_attempts, Head(wd.queue).github_id, 0) < MAX_RESTART_ATTEMPTS

----------------------------------------------------------------------------
(* C27: the escalation branch of a poll cycle *)

\* the check of the next user of the pass takes the escalation branch
WdEscalates ==
    \E fault \in {"none", "check", "get", "restart"} :
        /\ WdCheckUserWith(fault)
        /\ LET g == Head(wd.queue).github_id
               health_info == check_container_health(containers, g, fault)
           IN  /\ ~(health_info.running /\ health_info.healthy)
               /\ Get(restart_attempts, g, 0) >= MAX_RESTART_ATTEMPTS

\* the rows an escalation of the user leaves in the store
EscalationRecorded(u) ==
    /\ \E e \in events : e.user_id = u.id /\ e.event_type = "max_restarts"
    /\ \E a \in alerts : a.kind = "row" /\ a.severity = "critical" /\ a.user = u.github_id

\* C27: whenever the watchdog escalates a tenant, the tenant's status is error,
\* it is inactive, a max_restarts event and a critical Alert row have been
\* added for it and its restart counter is zero; and in no state is a tenant
\* in error and inactive while the event or the Alert row is missing.
C27_EscalationComplete ==
    /\ [][WdEscalates
          => LET user == Head(wd.queue)
                 g == user.github_id
             IN  /\ \A u \in users' : u.id = user.id
                        => u.container_status = "error" /\ ~u.is_active
                 /\ \E e \in events' \ events :
                        e.user_id = user.id /\ e.event_type = "max_restarts"
                 /\ \E a \in alerts' \ alerts :
                        a.kind = "row" /\ a.severity = "critical" /\ a.user = g
                 /\ g \in DOMAIN restart_attempts'
                 /\ restart_attempts'[g] = 0]_vars
    /\ [](\A u \in users :
              (u.container_status = "error" /\ ~u.is_active) => EscalationRecorded(u))

\* the pass in which a tenant was escalated is over
C27_Witness ==
    \E u \in users :
        /\ wd.pc = "sleep"
        /\ ObsOf(u.github_id).last = "escalate"
        /\ ObsOf(u.github_id).esc_pass = wd.passes
        /\ u.container_status = "error"
        /\ ~u.is_active
        /\ EscalationRecorded(u)
        /\ Get(restart_attempts, u.github_id, 1) = 0


----------------------------------------------------------------------------
(* C28: the time of the last health check *)

\* C28: a pass loads the users that are active when it begins, and when it
\* ends the last_health_check of every one of them that still has a row is
\* the time of that pass, committed to the store, with nothing of it left
\* pending in the session, whatever the pass did with the tenant.
C28_PassStampsEveryTenant ==
    [][/\ (wd.pc = "sleep" /\ wd'.pc = "pass")
            => wd'.loaded = {u.id : u \in {x \in users : x.is_active}}
       /\ (wd.pc = "pass" /\ wd'.pc = "sleep")
            => /\ wd.queue = <<>>
               /\ wd'.stamped = {}
               /\ \A u \in users' :
                      u.id \in wd.loaded => u.last_health_check = wd.passes]_vars

\* the pass that deactivated a tenant is over and has left its time on the
\* tenant's row, after earlier passes that found the tenant healthy, restarted
\* it, or did not find its container
C28_Witness ==
    \E u \in users :
        /\ wd.pc = "sleep"
        /\ wd.passes >= 2
        /\ ~u.is_active
        /\ u.container_status = "error"
        /\ ObsOf(u.github_id).esc_pass = wd.passes
        /\ u.last_health_check = wd.passes


----------------------------------------------------------------------------
(* C29: the skills a container is created with *)

\* the skills of a container created with no connections
DefaultSkills == {"coding"}

\* every skill create_container can name
SkillNames == {"coding", "github-ghost", "google-analytics"}

\* the container's OPENCLAW_SKILLS_ENABLED enables skill s
SkillEnabled(c, s) ==
    \E i \in DOMAIN c.skills_enabled : c.skills_enabled[i] \in {s, "*"}

\* C29: every container is created with the default skills enabled, and a
\* container created with more providers connected than another has every
\* skill enabled that the other has.
C29_SkillsOnlyGrow ==
    \A c \in containers :
        /\ \A s \in DefaultSkills : SkillEnabled(c, s)
        /\ \A d \in containers :
               {x.provider : x \in c.connections} \subseteq {x.provider : x \in d.connections}
                   => \A s \in SkillNames : SkillEnabled(c, s) => SkillEnabled(d, s)


----------------------------------------------------------------------------
(* get_container_status (admin/docker_manager.py): the connectivity status *)

\* get_container_status, line 523: the seconds a container may run without a
\* sign of life in its log before it is taken as connected
GRACE_SECONDS == 30

\* what the tail of the log contains: "error" and "telegram" (line 496), "409"
\* or "conflict" (line 500), and "ready" for any of the words of line 502
LogMarkers == {"error", "telegram", "409", "ready"}

\* State.StartedAt as the runtime reports it: empty, text that is no
\* timestamp, or an ISO timestamp (in seconds) that ends in "Z" or carries no
\* zone at all
StartedAtValues ==
    {[text |-> "empty", secs |-> 0, zone |-> "none"],
     [text |-> "garbled", secs |-> 0, zone |-> "none"],
     [text |-> "iso", secs |-> 100, zone |-> "Z"],
     [text |-> "iso", secs |-> 100, zone |-> "none"]}

\* lines 515-522: "Z" becomes "+00:00", the fraction is cut to microseconds,
\* datetime.fromisoformat parses the rest, and the start is subtracted from
\* an aware now; text that is no timestamp raises ValueError, a timestamp
\* with no zone gives a naive datetime and the subtraction raises TypeError
UptimeSeconds(started_at, now) ==
    IF started_at.text = "iso" /\ started_at.zone = "Z"
    THEN [raised |-> FALSE, seconds |-> now - started_at.secs]
    ELSE [raised |-> TRUE, seconds |-> 0]

\* the classification as it is without the fallback of lines 506-531
TelegramStatusNoFallback(container, now) ==
    LET has_errors == {"error", "telegram"} \subseteq container.logs
    IN  IF has_errors
        THEN IF "409" \in container.logs THEN "webhook_conflict" ELSE "error"
        ELSE IF "ready" \in container.logs THEN "connected"
        ELSE IF container.health = "healthy" THEN "connected"
        ELSE "initializing"

\* get_container_status, lines 491-531: telegram_status
TelegramStatus(container, now) ==
    LET has_errors == {"error", "telegram"} \subseteq container.logs
        uptime == UptimeSeconds(container.started_at, now)
    IN  IF has_errors
        THEN IF "409" \in container.logs THEN "webhook_conflict" ELSE "error"
        ELSE IF "ready" \in container.logs THEN "connected"
        ELSE IF container.health = "healthy" THEN "connected"
        ELSE IF container.status = "running"
        THEN IF container.started_at.text = "empty" THEN "connected"
             ELSE IF uptime.raised THEN "connected"
             ELSE IF uptime.seconds > GRACE_SECONDS THEN "connected"
             ELSE "initializing"
        ELSE "initializing"

\* the tenant's container as the runtime shows it to get_container_status
GsContainer(status, health, logs, started_at) ==
    {[c EXCEPT !.status = status, !.health = health]
        @@ [logs |-> logs, started_at |-> started_at] : c \in PtContainer(1)}

InitStatus ==
    \E status \in {"running", "exited"},
       health \in {"unknown", "starting", "healthy", "unhealthy"},
       logs \in SUBSET LogMarkers,
       started_at \in StartedAtValues :
        /\ containers = GsContainer(status, health, logs, started_at)
        /\ nextCid = 2
        /\ data_dirs = {PtGithubId(1)}
        /\ user_md = [g \in {PtGithubId(1)} |-> UserMdTemplate]
        /\ users = {}
        /\ nextUid = 1
        /\ oauth = <<>>
        /\ events = {}
        /\ alerts = {}
        /\ restart_attempts = [g \in {} |-> 0]
        /\ wd = [pc |-> "sleep", queue |-> <<>>, passes |-> 0, loaded |-> {}, stamped |-> {}]
        /\ cleanup = IdleCleanup
        /\ hist = [last |-> HistEntry("init", <<>>, NoArgs, "none", NoResult),
                   prev |-> [same |-> FALSE, fault |-> "none", success |-> FALSE]]
        /\ procs = [p \in Procs |-> IdleProc]
        /\ resp = NoResponse
        /\ obs = [g \in {} |-> NoObs]

\* the times at which the status is asked for
GsNows == {100, 101, 129, 130, 131, 200}

\* get_container_status for the tenant's container, found in the runtime
GsGetStatus ==
    \E c \in containers, now \in GsNows :
        /\ resp' = Response("get_container_status", 200, 0)
                      @@ [container |-> c, now |-> now,
                          telegram_status |-> TelegramStatus(c, now)]
        /\ UNCHANGED <<runtimeVars, storeVars, wdVars, hist, procs, obs>>

NextStatus == GsGetStatus

SpecStatus == InitStatus /\ [][NextStatus]_vars

\* the answer at hand is for a running container whose log shows neither the
\* error marker nor a readiness marker
QuietRunning ==
    /\ resp.op = "get_container_status"
    /\ resp.container.status = "running"
    /\ ~({"error", "telegram"} \subseteq resp.container.logs)
    /\ "ready" \notin resp.container.logs

\* the start timestamp of the answer at hand is a timestamp the code can
\* take the uptime from
StartKnown ==
    /\ resp.container.started_at.text = "iso"
    /\ resp.container.started_at.zone = "Z"

\* C30: for a running container whose log shows no error marker and no
\* readiness marker, the connectivity status is connected when the uptime is
\* more than the 30 seconds of grace and when the start timestamp is empty or
\* cannot be used; it is initializing only when the uptime is known and at
\* most 30 seconds.
C30_ConnectedAfterGrace ==
    QuietRunning =>
        /\ ~StartKnown => resp.telegram_status = "connected"
        /\ (StartKnown /\ resp.now - resp.container.started_at.secs > 30)
              => resp.telegram_status = "connected"
        /\ resp.telegram_status \in {"connected", "initializing"}
        /\ resp.telegram_status = "initializing"
              => /\ StartKnown
                 /\ resp.now - resp.container.started_at.secs <= 30

\* a container with no health check and a silent log, asked about one second
\* after the grace period is over
C30_Witness ==
    /\ QuietRunning
    /\ StartKnown
    /\ resp.container.health = "unknown"
    /\ resp.now - resp.container.started_at.secs = 31
    /\ resp.telegram_status = "connected"


----------------------------------------------------------------------------
(* sanitize_identifier (admin/main.py) on its own *)

\* the longest identifier handed to sanitize_identifier
MaxIdLen == 3

\* the characters of the identifiers: a letter, the at sign, the two
\* characters a name must not start with, an allowed and a forbidden sign
SzChars == {"a", "@", ".", "-", "_", " "}

SzIdentifiers == UNION {[1 .. n -> SzChars] : n \in 1 .. MaxIdLen}

InitSanitize ==
    \E identifier \in SzIdentifiers :
        /\ resp = [op |-> "input", identifier |-> identifier, safe |-> <<>>]
        /\ containers = {}
        /\ nextCid = 1
        /\ data_dirs = {}
        /\ user_md = NoFiles
        /\ users = {}
        /\ nextUid = 1
        /\ oauth = <<>>
        /\ events = {}
        /\ alerts = {}
        /\ restart_attempts = [g \in {} |-> 0]
        /\ wd = [pc |-> "sleep", queue |-> <<>>, passes |-> 0, loaded |-> {}, stamped |-> {}]
        /\ cleanup = IdleCleanup
        /\ hist = [last |-> HistEntry("init", <<>>, NoArgs, "none", NoResult),
                   prev |-> [same |-> FALSE, fault |-> "none", success |-> FALSE]]
        /\ procs = [p \in Procs |-> IdleProc]
        /\ obs = [g \in {} |-> NoObs]

\* sanitize_identifier(identifier)
SzSanitize ==
    /\ resp.op = "input"
    /\ resp' = [op |-> "sanitize_identifier", identifier |-> resp.identifier,
                safe |-> sanitize_identifier(resp.identifier)]
    /\ UNCHANGED <<runtimeVars, storeVars, wdVars, hist, procs, obs>>

\* sanitize_identifier applied to what it returned
SzAgain ==
    /\ resp.op = "sanitize_identifier"
    /\ resp' = [op |-> "again", identifier |-> resp.safe,
                safe |-> sanitize_identifier(resp.safe)]
    /\ UNCHANGED <<runtimeVars, storeVars, wdVars, hist, procs, obs>>

NextSanitize == SzSanitize \/ SzAgain

SpecSanitize == InitSanitize /\ [][NextSanitize]_vars

\* where character i of the identifier begins in the sanitized string
SafeIndex(identifier, safe, i) ==
    LET ats == {j \in 1 .. Len(identifier) : identifier[j] = "@"}
        prefix == Len(safe) - Len(identifier) - 3 * Cardinality(ats)
    IN  i + prefix + 3 * Cardinality({j \in ats : j < i})

\* C31: what sanitize_identifier returns for a non-empty identifier has only
\* characters of [A-Za-z0-9_.-], starts with neither '.' nor '-', has '-at-'
\* where the identifier has '@'; and sanitizing it again returns it unchanged.
C31_SanitizeSafeAndIdempotent ==
    resp.op \in {"sanitize_identifier", "again"} =>
        /\ resp.safe # <<>>
        /\ \A k \in 1 .. Len(resp.safe) :
               resp.safe[k] \in AllowedChars
        /\ resp.safe[1] \notin {".", "-"}
        /\ \A i \in 1 .. Len(resp.identifier) :
               LET k == SafeIndex(resp.identifier, resp.safe, i)
               IN  /\ k >= 1
                   /\ IF resp.identifier[i] = "@"
                      THEN /\ k + 3 <= Len(resp.safe)
                           /\ SubSeq(resp.safe, k, k + 3) = <<"-", "a", "t", "-">>
                      ELSE /\ k <= Len(resp.safe)
                           /\ resp.identifier[i] \in AllowedChars
                                 => resp.safe[k] = resp.identifier[i]
        /\ resp.op = "again" => resp.safe = resp.identifier

\* an identifier that begins with '@' has been sanitized, prefixed, and
\* sanitized again
C31_Witness ==
    /\ resp.op = "again"
    /\ Len(resp.identifier) = 6
    /\ SubSeq(resp.identifier, 1, 5) = <<"u", "-", "a", "t", "-">>
    /\ resp.safe = resp.identifier


----------------------------------------------------------------------------
(* USER.md and its Active Connections section *)

\* the longest USER.md, in pieces
MaxPieces == 8

SdIds == {<<"a">>}

\* the connections handed to create_container: none, each provider, both
SdConnections ==
    SUBSET {[provider |-> p, token_key |-> "access_token"] : p \in {"google", "github"}}

\* create_container for the tenant
SdCreate ==
    \E u \in SdIds, conns \in SdConnections, fault \in {"none", "run_create"} :
        LcApply("create", u, CreateArgs("free", BASE_PORT, conns), fault,
                create_container(containers, nextCid, u,
                                 CreateArgs("free", BASE_PORT, conns), "starting", fault),
                create_container_dirs(containers, data_dirs, u, fault))

\* delete_container for the tenant, with its data kept or removed
SdDelete ==
    \E u \in SdIds, remove_data \in BOOLEAN :
        LcApply("delete", u, DeleteArgs(remove_data), "none",
                delete_container(containers, nextCid, u, "none"),
                delete_container_dirs(containers, data_dirs, u, remove_data, "none"))

\* the tenant, or its bot, writes at the end of USER.md (the file is mounted
\* in the container's workspace, mode 0666)
SdEdit ==
    \E u \in DOMAIN user_md :
        /\ Len(user_md[u]) < MaxPieces
        /\ user_md' = [user_md EXCEPT ![u] = Append(@, "text")]
        /\ UNCHANGED <<containers, nextCid, data_dirs, storeVars, wdVars, histVars>>

NextSeed == SdCreate \/ SdDelete \/ SdEdit

SpecSeed == Init /\ [][NextSeed]_vars

\* the pieces of a content that are not white space
RECURSIVE NonBlank(_)
NonBlank(content) ==
    IF content = <<>> THEN <<>>
    ELSE (IF Head(content) = "blank" THEN <<>> ELSE <<Head(content)>>)
         \o NonBlank(Tail(content))

\* what follows the first heading
RECURSIVE FromHeading(_)
FromHeading(content) ==
    IF content = <<>> THEN <<>>
    ELSE IF Head(content) = "heading" THEN Tail(content)
    ELSE FromHeading(Tail(content))

\* the connection lines at the head of a content
RECURSIVE LeadingLines(_)
LeadingLines(content) ==
    IF content = <<>> \/ Head(content) \notin {"google", "github"} THEN <<>>
    ELSE <<Head(content)>> \o LeadingLines(Tail(content))

\* the lines of the Active Connections section; none when there is no section
SectionLines(content) == LeadingLines(FromHeading(content))

\* what follows the Active Connections section
AfterSection(content) ==
    LET rest == FromHeading(content)
    IN  SubSeq(rest, Len(LeadingLines(rest)) + 1, Len(rest))

\* the step is a create_container call for tenant u
Provisions(u) ==
    /\ hist' # hist
    /\ hist'.last.op = "create"
    /\ hist'.last.user = u

\* C32: a provisioning call that finds a USER.md with an Active Connections
\* section leaves what the file says before the section and what it says
\* after the section as they were (white space aside).
C32_OnlySectionReplaced ==
    [][\A u \in (DOMAIN user_md) \cap (DOMAIN user_md') :
          (Provisions(u) /\ \E i \in DOMAIN user_md[u] : user_md[u][i] = "heading")
              => /\ NonBlank(BeforeHeading(user_md'[u])) = NonBlank(BeforeHeading(user_md[u]))
                 /\ NonBlank(AfterSection(user_md'[u])) = NonBlank(AfterSection(user_md[u]))]_vars

\* C33: after every create_container call that succeeds, the lines of the
\* Active Connections section of the tenant's USER.md are the lines for the
\* connections passed in that call.
C33_SectionFollowsCall ==
    [][\A u \in SdIds :
          (Provisions(u) /\ hist'.last.res.success)
              => /\ u \in DOMAIN user_md'
                 /\ SectionLines(user_md'[u]) = ConnectionLines(hist'.last.args.connections)]_vars


----------------------------------------------------------------------------
(* C34: the range of the restart-attempt counters *)

\* C34: every tenant's entry of restart_attempts, when there is one, is an
\* integer from 0 to MAX_RESTART_ATTEMPTS.
C34_CounterInRange ==
    \A g \in DOMAIN restart_attempts :
        restart_attempts[g] \in 0 .. MAX_RESTART_ATTEMPTS

\* a counter stands at the maximum after a restart that went through and a
\* cycle in which a runtime call failed
C34_Witness ==
    \E g \in DOMAIN restart_attempts :
        /\ restart_attempts[g] = MAX_RESTART_ATTEMPTS
        /\ ObsOf(g).faulted
        /\ \E u \in users, e \in events :
               u.github_id = g /\ e.user_id = u.id /\ e.event_type = "auto_restart"


----------------------------------------------------------------------------
(* C35: tenants whose image declares no health check *)

NhIds == {<<"a">>}

\* create_user; the image of the container declares no HEALTHCHECK, so the
\* runtime reports no State.Health for it
NhCreateUser ==
    \E g \in NhIds, fault \in {"none", "run_create"} :
        CreateUser(Request(g, "", NoId, NoId, "free"), "unknown", fault)

\* the check of the next user of a pass, every runtime call going through
NhCheckUser == WdCheckUserWith("none")

NextNoHealthcheck ==
    \/ NhCreateUser
    \/ WdBeginPass
    \/ NhCheckUser
    \/ WdEndPass

SpecNoHealthcheck == Init /\ [][NextNoHealthcheck]_vars

\* C35: a tenant whose container is running and reports no health status is
\* left alone by the watchdog: the tenant stays active and no auto_restart
\* and no max_restarts event is written for it.
C35_NoHealthcheckLeftAlone ==
    \A u \in users :
        (\E c \in ByName(containers, ContainerName(u.github_id)) :
             c.status = "running" /\ c.health = "unknown")
            => /\ u.is_active
               /\ ~(\E e \in events : /\ e.user_id = u.id
                                       /\ e.event_type \in {"auto_restart", "max_restarts"})
               /\ u.github_id \notin DOMAIN restart_attempts


----------------------------------------------------------------------------
(* C36: a container stopped by the admin *)

SpIds == {<<"a">>}

\* create_user
SpCreateUser ==
    \E g \in SpIds : CreateUser(Request(g, "", NoId, NoId, "free"), "starting", "none")

\* POST /api/users/{github_id}/container with action "stop"
SpStop ==
    \E g \in SpIds, fault \in {"none", "get"} : ContainerAction(g, "stop", "starting", fault)

\* the check of the next user of a pass, every runtime call going through
SpCheckUser == WdCheckUserWith("none")

NextStopped ==
    \/ SpCreateUser
    \/ SpStop
    \/ WdBeginPass
    \/ SpCheckUser
    \/ WdEndPass

SpecStopped == Init /\ [][NextStopped]_vars

\* the last thing the admin asked for u is a stop, and it succeeded: the
\* tenant is active, its row says stopped and its container is down
AdminStopped(u) ==
    /\ resp.op = "container_action"
    /\ resp.user_id = u.id
    /\ u.is_active
    /\ u.container_status = "stopped"
    /\ \E e \in events : e.user_id = u.id /\ e.event_type = "stop"
    /\ \E c \in ByName(containers, ContainerName(u.github_id)) : c.status = "exited"

\* C36: while the last admin action for an active tenant is a stop that
\* succeeded, no step of the watchdog changes the tenant's container (it is
\* neither started nor restarted) or the tenant's restart-attempt counter.
C36_StoppedStaysStopped ==
    [][\A u \in users :
          (AdminStopped(u) /\ wd' # wd)
              => /\ ByName(containers', ContainerName(u.github_id))
                        = ByName(containers, ContainerName(u.github_id))
                 /\ Get(restart_attempts', u.github_id, 0)
                        = Get(restart_attempts, u.github_id, 0)]_vars


----------------------------------------------------------------------------
(* C37: the container of a deleted tenant *)

\* u is a row that the step removes with a delete_user that answers success
DeletedWithSuccess(u) ==
    /\ u \in users
    /\ u \notin users'
    /\ resp'.op = "delete_user"
    /\ resp'.code = 200
    /\ resp'.user_id = u.id

\* C37: when delete_user answers success for a tenant, no container labelled
\* with the tenant's identifier is left in the runtime, whether or not the
\* runtime failed to stop or remove the container during the delete.
C37_DeletedLeavesNoContainer ==
    [][\A u \in users :
          DeletedWithSuccess(u) => ~(\E c \in containers' : c.user = u.github_id)]_vars


----------------------------------------------------------------------------
(* C38: the credentials of a deleted tenant *)

\* C38: in every reachable state of the store each oauth_connections row
\* refers to a users row that exists; in particular no credential of a tenant
\* removed by delete_user is left behind.
C38_CredentialsHaveTenant ==
    \A i \in DOMAIN oauth : \E u \in users : u.id = oauth[i].user_id


----------------------------------------------------------------------------
(* SpecProvision: two create_user requests in flight at once.  The handler *)
(* is a coroutine on its own session: between the port search (line 391)   *)
(* and the commit of the new row (line 412) other requests run.            *)

PvIds == {<<"a">>, <<"b">>}

\* the runtime cannot bind a host port that a running container holds
PortTaken(cs, name, port) ==
    \E c \in cs : c.name # name /\ c.port = port /\ c.status = "running"

\* create_user, lines 319-391, for a tenant that has no row: the lookup finds
\* nothing and the port is taken from the rows as they are now
PvRead(p) ==
    \E g \in PvIds :
        LET req == Request(g, "", NoId, NoId, "free")
            port == get_next_available_port(users)
        IN  /\ procs[p].pc = "idle"
            /\ ExistingUser(users, req) = {}
            /\ port # 0
            /\ procs' = [procs EXCEPT ![p] = [pc |-> "commit",
                                              user |-> sanitize_identifier(g),
                                              args |-> CreateArgs(req.plan, port, {}),
                                              res |-> NoResult]]
            /\ UNCHANGED <<runtimeVars, storeVars, wdVars, hist, resp, obs>>

\* create_user, lines 396-467: the row is added with the port found earlier
\* and committed (github_id is unique, container_port is not), then the
\* container is created
PvCommit(p) ==
    LET user_identifier == procs[p].user
        req == Request(user_identifier, "", NoId, NoId, procs[p].args.plan)
        user == UserRow(nextUid, user_identifier, NoId, procs[p].args.plan,
                        procs[p].args.port)
    IN  /\ procs[p].pc = "commit"
        /\ procs' = [procs EXCEPT ![p] = IdleProc]
        /\ IF \E u \in users : u.github_id = user_identifier
           THEN /\ resp' = [Response("create_user", 500, 0) EXCEPT !.req = req]
                /\ UNCHANGED <<runtimeVars, users, nextUid, oauth>>
           ELSE /\ nextUid <= MaxRows
                /\ nextUid' = nextUid + 1
                /\ EnsureContainer(users \cup {user}, oauth, user, "starting",
                        IF PortTaken(containers, ContainerName(user_identifier),
                                     user.container_port)
                        THEN "run_start" ELSE "none",
                        req, TRUE)
        /\ UNCHANGED <<events, alerts, wdVars, hist, obs>>

\* DELETE /api/users/{github_id}
PvDeleteUser == \E g \in PvIds : DeleteUserAction(g, FALSE, "none")

NextProvision ==
    \/ \E p \in Procs : PvRead(p)
    \/ \E p \in Procs : PvCommit(p)
    \/ PvDeleteUser

SpecProvision == Init /\ [][NextProvision]_vars

\* C39: in every reachable state of the store no two users rows hold the same
\* non-null container_port, also when two create_user requests for different
\* new tenants interleave between the port search and the commit of the row.
C39_PortsDistinct ==
    \A u, v \in users :
        (u # v /\ u.container_port # 0) => u.container_port # v.container_port


----------------------------------------------------------------------------
(* SpecIdentity: provisioning requests whose raw identities differ *)

\* the raw identities of the requests: a@b, a-at-b, "a b" and a-b
IdRaw ==
    {<<"a", "@", "b">>, <<"a", "-", "a", "t", "-", "b">>,
     <<"a", " ", "b">>, <<"a", "-", "b">>}

\* create_user
IdCreateUser ==
    \E raw \in IdRaw, fault \in {"none", "run_create"} :
        CreateUser(Request(raw, "", NoId, NoId, "free"), "starting", fault)

\* DELETE /api/users/{github_id}
IdDeleteUser ==
    \E raw \in IdRaw : DeleteUserAction(sanitize_identifier(raw), FALSE, "none")

NextIdentity ==
    \/ IdCreateUser
    \/ IdDeleteUser

SpecIdentity == Init /\ [][NextIdentity]_vars

\* the raw identity create_user derives the canonical identifier from
RawIdentifier(req) ==
    IF req.provider_id # NoId THEN req.provider_id
    ELSE IF req.github_id # NoId THEN req.github_id ELSE req.email

\* C40: two successive create_user requests that carry different raw
\* identities and both succeed are never bound to the same tenant: the second
\* one does not update or reuse the row and container of the first.
C40_DistinctIdentitiesDistinctTenants ==
    [][(/\ resp.op = "create_user" /\ resp.code = 200
        /\ resp'.op = "create_user" /\ resp'.code = 200
        /\ RawIdentifier(resp.req) # RawIdentifier(resp'.req))
           => resp'.user_id # resp.user_id]_vars

====
